---------------------------- MODULE Spec2Model ----------------------------
(***************************************************************************)
(* A model of sunxi_hdmi_fb, the HDMI / framebuffer control utility for    *)
(* Allwinner display engines DE1 (A10/A20) and DE2 (H3/H5/A64).            *)
(*                                                                         *)
(* Spec is one process run of main(): option parsing and disp_open         *)
(* (MainStart), one command branch (MainInfo .. MainUsage) and the cleanup *)
(* at `done` (MainDone).  SpecApi applies the functions of the program one *)
(* after the other inside one process, SpecDetect applies                  *)
(* detect_de_version repeatedly to one system.  The kernel driver and the  *)
(* files the program reads are the environment.  Every device call is      *)
(* appended to `calls`; `fdtab` is the descriptor table of the process.    *)
(*                                                                         *)
(* Strings are sequences of one-character strings, so that strtol, atoi,   *)
(* sscanf, strstr and strcasecmp are computed character by character.      *)
(***************************************************************************)
EXTENDS Integers, Sequences, FiniteSets, TLC

VARIABLES
    cpuinfo,        \* /proc/cpuinfo: [exists, lines]
    hdmi_state,     \* /sys/class/switch/hdmi/state: [exists, text]
    hw,             \* the generation of the driver behind /dev/disp (0: neither)
    drv,            \* driver output state per screen: [type, mode, scn_w, scn_h]
    fbdev,          \* /dev/fb0 geometry: [xres, yres, xres_virtual, yres_virtual, bits_per_pixel, rgba]
    g_de_version,   \* static de_version_t g_de_version
    g_disp_fd,      \* static int g_disp_fd
    g_fb_fd,        \* static int g_fb_fd
    g_screen,       \* static uint32_t g_screen
    g_force,        \* static int g_force
    pc,             \* "shell", "opened" (after disp_open), "done" (at done:), "exited"; "api"; "detect"
    argv,           \* the command line of the run
    arg_start,      \* index of the command word, after the options
    ret,            \* main's ret
    exit_code,      \* the exit status the shell sees (low 8 bits of main's return value)
    calls,          \* device calls in order: of the run (Spec), of the last function (SpecApi)
    fdtab,          \* descriptor table: [dev, open], descriptor 3 first
    ndetect,        \* number of assignments to g_de_version
    last,           \* the last operation: [op, args, force, from, r]
    det,            \* detection harness: [results, drv0, fb0]
    printed,        \* the report lines the process wrote to stdout: [line, text]
    runs,           \* the process runs that ended before this one: [op, r, g_screen]
    query,          \* the last mode-catalog lookup: [by, key, entry, from]
    layout,         \* the structure being laid out: [type, placed, offsets, end, align, size]
    build           \* how the binary was compiled: [enum_size, packed]

vars == <<cpuinfo, hdmi_state, hw, drv, fbdev, g_de_version, g_disp_fd, g_fb_fd,
          g_screen, g_force, pc, argv, arg_start, ret, exit_code, calls, fdtab,
          ndetect, last, det, printed, runs, query, layout, build>>

-----------------------------------------------------------------------------
(* Bounds of the model *)

MaxCpuinfoLines == 2    \* lines of /proc/cpuinfo
MaxDetectCalls == 2     \* consecutive detect_de_version calls in SpecDetect
MaxProcessRuns == 2     \* consecutive runs of the program in SpecSession

-----------------------------------------------------------------------------
(* Enumerations and command codes *)

DE_VERSION_UNKNOWN == 0
DE_VERSION_1 == 1
DE_VERSION_2 == 2

DISP_TV_MOD_480I == 0
DISP_TV_MOD_576I == 1
DISP_TV_MOD_480P == 2
DISP_TV_MOD_720P_50HZ == 4
DISP_TV_MOD_720P_60HZ == 5
DISP_TV_MOD_3840_2160P_30HZ == 28
DISP_TV_MODE_NUM == 31
DEFAULT_HDMI_MODE == DISP_TV_MOD_720P_50HZ

DISP_OUTPUT_TYPE_NONE == 0
DISP_OUTPUT_TYPE_HDMI == 4

DE1_CMD_SCN_GET_WIDTH == \H08
DE1_CMD_SCN_GET_HEIGHT == \H09
DE1_CMD_GET_OUTPUT_TYPE == \H0a
DE1_CMD_HDMI_ON == \H1c0
DE1_CMD_HDMI_OFF == \H1c1
DE1_CMD_HDMI_SET_MODE == \H1c2
DE1_CMD_HDMI_GET_MODE == \H1c3
DE1_CMD_HDMI_SUPPORT_MODE == \H1c4
DE1_CMD_HDMI_GET_HPD == \H1c5
DE1_CMD_FB_REQUEST == \H280
DE1_CMD_FB_RELEASE == \H281

DE2_CMD_GET_SCN_WIDTH == \H07
DE2_CMD_GET_SCN_HEIGHT == \H08
DE2_CMD_GET_OUTPUT_TYPE == \H09
DE2_CMD_DEVICE_SWITCH == \H0f
DE2_CMD_GET_OUTPUT == \H10
DE2_CMD_HDMI_SUPPORT_MODE == \Hc4

DE1_LAYER_WORK_MODE_NORMAL == 0
DE1_LAYER_WORK_MODE_SCALER == 4
DE1_FB_MODE_SCREEN0 == 0

\* <linux/fb.h> request codes of the generic framebuffer interface
FBIOGET_VSCREENINFO == \H4600
FBIOPUT_VSCREENINFO == \H4601
FBIOGET_FSCREENINFO == \H4602

\* C integer widths
\* Conversion to uint32_t / unsigned.  The integers of the model are 32-bit
\* signed, so a negative value x wraps to 2^31 + x, which stands for
\* 2^32 + x; the other values of the model stay below 2^31.
INT_MAX == (2^30 - 1) + 2^30
Uint32(x) == IF x < 0 THEN (INT_MAX + x) + 1 ELSE x
EXIT_MASK == 2^8       \* the exit status keeps the low 8 bits of main's return value

-----------------------------------------------------------------------------
(* Strings and the C library's number parsing *)

Digits == <<"0", "1", "2", "3", "4", "5", "6", "7", "8", "9">>
UpperChars == <<"A","B","C","D","E","F","G","H","I","J","K","L","M",
                "N","O","P","Q","R","S","T","U","V","W","X","Y","Z">>
LowerChars == <<"a","b","c","d","e","f","g","h","i","j","k","l","m",
                "n","o","p","q","r","s","t","u","v","w","x","y","z">>

IsDigit(c) == \E i \in 1..10 : Digits[i] = c
DigitVal(c) == (CHOOSE i \in 1..10 : Digits[i] = c) - 1
IsSpace(c) == c = " "

\* tolower()
ToLower(c) ==
    IF \E i \in 1..26 : UpperChars[i] = c
    THEN LowerChars[CHOOSE i \in 1..26 : UpperChars[i] = c]
    ELSE c

\* strcasecmp(a, b) == 0
StrCaseEq(a, b) ==
    /\ Len(a) = Len(b)
    /\ \A i \in 1..Len(a) : ToLower(a[i]) = ToLower(b[i])

\* index of the first character at or after i that is not white space
RECURSIVE SkipSpace(_, _)
SkipSpace(s, i) ==
    IF i <= Len(s) /\ IsSpace(s[i]) THEN SkipSpace(s, i + 1) ELSE i

\* the run of decimal digits of s from i: [val, next]
RECURSIVE ScanDigits(_, _, _)
ScanDigits(s, i, acc) ==
    IF i <= Len(s) /\ IsDigit(s[i])
    THEN ScanDigits(s, i + 1, 10 * acc + DigitVal(s[i]))
    ELSE [val |-> acc, next |-> i]

\* One numeric conversion as strtol / scanf do it: white space, an optional
\* sign, then at least one digit.  [ok, eof, val, next]; val is signed.
ScanNumber(s, i) ==
    LET j == SkipSpace(s, i)
        signed == j <= Len(s) /\ (s[j] = "-" \/ s[j] = "+")
        k == IF signed THEN j + 1 ELSE j
        after_d(d) ==
            IF d.next = k
            THEN [ok |-> FALSE, eof |-> j > Len(s), val |-> 0, next |-> i]
            ELSE [ok |-> TRUE, eof |-> FALSE,
                  val |-> IF signed /\ s[j] = "-" THEN 0 - d.val ELSE d.val,
                  next |-> d.next]
    IN  after_d(ScanDigits(s, k, 0))

\* strtol(s, &endptr, 10): [val, endptr]; endptr > Len(s) is *endptr == '\0'
StrToL(s) ==
    LET after_n(n) ==
            IF n.ok THEN [val |-> n.val, endptr |-> n.next]
            ELSE [val |-> 0, endptr |-> 1]
    IN  after_n(ScanNumber(s, 1))

\* atoi(s)
AToI(s) == StrToL(s).val

\* sscanf(s, fmt): fmt is a sequence of "%u", "%d" or a literal character.
\* The result is [n, vals]: n the number of conversions stored (-1 for EOF
\* before the first conversion), vals the stored values in order.
RECURSIVE SscanfFrom(_, _, _, _)
SscanfFrom(s, i, fmt, vals) ==
    IF fmt = << >> THEN [n |-> Len(vals), vals |-> vals]
    ELSE LET f == Head(fmt) IN
         IF f = "%u" \/ f = "%d"
         THEN LET after_c(c) ==
                      IF c.ok
                      THEN SscanfFrom(s, c.next, Tail(fmt),
                                      Append(vals, IF f = "%u" THEN Uint32(c.val) ELSE c.val))
                      ELSE [n |-> IF c.eof /\ vals = << >> THEN 0 - 1 ELSE Len(vals),
                            vals |-> vals]
              IN  after_c(ScanNumber(s, i))
         ELSE IF i <= Len(s) /\ s[i] = f
              THEN SscanfFrom(s, i + 1, Tail(fmt), vals)
              ELSE [n |-> Len(vals), vals |-> vals]

Sscanf(s, fmt) == SscanfFrom(s, 1, fmt, << >>)

-----------------------------------------------------------------------------
(* Mode catalog *)

Mode(id, name, w, h, hz) ==
    [mode |-> id, name |-> name, width |-> w, height |-> h, refresh |-> hz]

mode_table == <<
    Mode(0,  <<"4","8","0","i">>,             720,  480,  60),
    Mode(1,  <<"5","7","6","i">>,             720,  576,  50),
    Mode(2,  <<"4","8","0","p">>,             720,  480,  60),
    Mode(3,  <<"5","7","6","p">>,             720,  576,  50),
    Mode(4,  <<"7","2","0","p","5","0">>,     1280, 720,  50),
    Mode(5,  <<"7","2","0","p","6","0">>,     1280, 720,  60),
    Mode(6,  <<"1","0","8","0","i","5","0">>, 1920, 1080, 50),
    Mode(7,  <<"1","0","8","0","i","6","0">>, 1920, 1080, 60),
    Mode(8,  <<"1","0","8","0","p","2","4">>, 1920, 1080, 24),
    Mode(9,  <<"1","0","8","0","p","5","0">>, 1920, 1080, 50),
    Mode(10, <<"1","0","8","0","p","6","0">>, 1920, 1080, 60),
    Mode(26, <<"1","0","8","0","p","2","5">>, 1920, 1080, 25),
    Mode(27, <<"1","0","8","0","p","3","0">>, 1920, 1080, 30),
    Mode(28, <<"2","1","6","0","p","3","0">>, 3840, 2160, 30),
    Mode(29, <<"2","1","6","0","p","2","5">>, 3840, 2160, 25),
    Mode(30, <<"2","1","6","0","p","2","4">>, 3840, 2160, 24) >>

\* a lookup: what was looked up by, the key, the entry returned, and the
\* lookup before it when the key was taken from that one's result
NoQuery == [by |-> "none", key |-> << >>]
Query(by, key, entry, from) == [by |-> by, key |-> key, entry |-> entry, from |-> from]

\* no structure is being laid out
NoLayout == [type |-> "none"]

\* what the layout of a structure depends on: the size the compiler gives an
\* enumerated type whose values fit a byte (4, or 1 with -fshort-enums), and
\* whether members are packed (-fpack-struct); the documented build,
\* arm-linux-gnueabihf-gcc without options, does neither
Build(enum_size, packed) == [enum_size |-> enum_size, packed |-> packed]
DocumentedBuild == Build(4, FALSE)
Builds == {DocumentedBuild, Build(1, FALSE), Build(4, TRUE)}

\* a lookup that found nothing returns NULL
NoMode == Mode(0 - 1, << >>, 0, 0, 0)

\* the loops over mode_table return at the first match: hits are the
\* indices that match, the result is the lowest of them, 0 when there is none
FirstIndex(hits) ==
    IF hits = {} THEN 0 ELSE CHOOSE i \in hits : \A j \in hits : i <= j

EntryAt(i) == IF i = 0 THEN NoMode ELSE mode_table[i]

\* find_mode_by_resolution that keeps scanning and returns the last match
find_mode_by_resolution_last(w, h, refresh) ==
    LET P(e) == e.width = w /\ e.height = h /\ (refresh = 0 \/ e.refresh = refresh)
        hits == {i \in 1..Len(mode_table) : P(mode_table[i])}
    IN  IF hits = {} THEN NoMode
        ELSE mode_table[CHOOSE i \in hits : \A j \in hits : j <= i]

find_mode_by_resolution(w, h, refresh) ==
    LET P(e) == e.width = w /\ e.height = h /\ (refresh = 0 \/ e.refresh = refresh)
    IN  EntryAt(FirstIndex({i \in 1..Len(mode_table) : P(mode_table[i])}))

\* find_mode_by_name that compares with strcmp
find_mode_by_name_exact(name) ==
    LET P(e) == e.name = name
    IN  EntryAt(FirstIndex({i \in 1..Len(mode_table) : P(mode_table[i])}))

find_mode_by_name(name) ==
    LET P(e) == StrCaseEq(e.name, name)
    IN  EntryAt(FirstIndex({i \in 1..Len(mode_table) : P(mode_table[i])}))

get_mode_info(mode) ==
    LET P(e) == e.mode = mode
    IN  EntryAt(FirstIndex({i \in 1..Len(mode_table) : P(mode_table[i])}))

\* parse_resolution(str, &width, &height, &refresh): [r, width, height, refresh]
parse_resolution(str) ==
    LET after_a(a) ==
            LET after_b(b) ==
                    IF a.n >= 2
                    THEN [r |-> 0, width |-> a.vals[1], height |-> a.vals[2],
                          refresh |-> IF a.n = 3 THEN a.vals[3] ELSE 0]
                    ELSE IF b.n = 2
                    THEN [r |-> 0, width |-> b.vals[1], height |-> b.vals[2], refresh |-> 0]
                    ELSE [r |-> 0 - 1, width |-> 0, height |-> 0, refresh |-> 0]
            IN  after_b(Sscanf(str, <<"%u", "x", "%u">>))
    IN  after_a(Sscanf(str, <<"%u", "x", "%u", "@", "%u">>))

\* parse_resolution_depth(str, &width, &height, &depth): [r, width, height, depth]
parse_resolution_depth(str) ==
    LET after_a(a) ==
            IF a.n = 3
            THEN [r |-> 0, width |-> a.vals[1], height |-> a.vals[2], depth |-> a.vals[3]]
            ELSE [r |-> 0 - 1, width |-> 0, height |-> 0, depth |-> 0]
    IN  after_a(Sscanf(str, <<"%u", "x", "%u", "x", "%d">>))

-----------------------------------------------------------------------------
(* The state threaded through one handler.                                 *)
(*                                                                         *)
(* A handler runs to completion in one step.  W is the record of what it   *)
(* reads and writes: the globals, the environment, the logs, the outcomes  *)
(* `orc` of the system calls still to come (one per call, in order), the   *)
(* value `r` returned by the last function, errno, and the output          *)
(* parameters `out` of the last function.                                  *)
(*                                                                         *)
(* An outcome is "ok" (the call succeeds with the driver's answer) or     *)
(* "err" (-1, errno other than ENOTTY); a display-control command the      *)
(* driver does not know is answered "enotty" (-1, errno ENOTTY) whatever   *)
(* the outcome drawn.  `sink` is what the connected display makes the      *)
(* driver answer to a mode-support or hot-plug query that succeeds: 1 or 0.*)

World(o, sink) ==
    [g_de_version |-> g_de_version, g_disp_fd |-> g_disp_fd, g_fb_fd |-> g_fb_fd,
     g_screen |-> g_screen, g_force |-> g_force, drv |-> drv, fbdev |-> fbdev,
     calls |-> calls, fdtab |-> fdtab, ndetect |-> ndetect, printed |-> printed,
     orc |-> o, sink |-> sink, r |-> 0, errno |-> "0", out |-> << >>]

Return(w, r) == [w EXCEPT !.r = r]

\* one entry of the call log; err is errno after a call that failed
Call(op, dev, cmd, args, data, res, err) ==
    [op |-> op, dev |-> dev, cmd |-> cmd, args |-> args, data |-> data,
     res |-> res, err |-> err]

\* struct fb_var_screeninfo as it crosses the framebuffer interface
VinfoData(v) ==
    <<v.xres, v.yres, v.xres_virtual, v.yres_virtual, v.bits_per_pixel>> \o v.rgba

\* descriptors 0, 1 and 2 are the standard streams
FdSlot(fd) == fd - 2

\* the lowest descriptor slot that is free
FreeSlot(tab) ==
    IF \E i \in 1..Len(tab) : ~tab[i].open
    THEN CHOOSE i \in 1..Len(tab) : ~tab[i].open /\ \A j \in 1..(i - 1) : tab[j].open
    ELSE Len(tab) + 1

\* open(path, flags)
sys_open(w, dev) ==
    LET o == Head(w.orc)
        after_slot(slot) ==
            LET entry == [dev |-> dev, open |-> TRUE]
                res == IF o = "ok" THEN slot + 2 ELSE 0 - 1
            IN  [w EXCEPT !.orc = Tail(@),
                          !.fdtab = IF o # "ok" THEN @
                                    ELSE IF slot <= Len(@) THEN [@ EXCEPT ![slot] = entry]
                                    ELSE Append(@, entry),
                          !.calls = Append(@, Call("open", dev, 0, << >>, << >>, res,
                                                    IF o = "ok" THEN "0" ELSE "ENOENT")),
                          !.errno = IF o = "ok" THEN @ ELSE "ENOENT",
                          !.r = res]
    IN  after_slot(FreeSlot(w.fdtab))

\* close(fd): fails with EBADF on a descriptor that is not open
sys_close(w, fd) ==
    IF FdSlot(fd) \in 1..Len(w.fdtab) /\ w.fdtab[FdSlot(fd)].open
    THEN [w EXCEPT !.fdtab[FdSlot(fd)].open = FALSE,
                   !.calls = Append(@, Call("close", w.fdtab[FdSlot(fd)].dev, 0, <<fd>>,
                                            << >>, 0, "0")),
                   !.r = 0]
    ELSE [w EXCEPT !.calls = Append(@, Call("close", "none", 0, <<fd>>, << >>, 0 - 1, "EBADF")),
                   !.errno = "EBADF",
                   !.r = 0 - 1]

\* the display-control commands a driver of generation gen knows
Dialect(gen) ==
    IF gen = DE_VERSION_1
    THEN {DE1_CMD_SCN_GET_WIDTH, DE1_CMD_SCN_GET_HEIGHT, DE1_CMD_GET_OUTPUT_TYPE, \H1f}
         \cup (\H40 .. \H4b)
         \cup {DE1_CMD_HDMI_ON, DE1_CMD_HDMI_OFF, DE1_CMD_HDMI_SET_MODE,
               DE1_CMD_HDMI_GET_MODE, DE1_CMD_HDMI_SUPPORT_MODE, DE1_CMD_HDMI_GET_HPD,
               DE1_CMD_FB_REQUEST, DE1_CMD_FB_RELEASE, \H282}
    ELSE IF gen = DE_VERSION_2
    THEN {\H03, DE2_CMD_GET_SCN_WIDTH, DE2_CMD_GET_SCN_HEIGHT, DE2_CMD_GET_OUTPUT_TYPE,
          DE2_CMD_DEVICE_SWITCH, DE2_CMD_GET_OUTPUT, \H40, \H41, \H42, \H43, \H47, \H48,
          DE2_CMD_HDMI_SUPPORT_MODE, \Hc6, \H280, \H281}
    ELSE {}

\* What the driver answers to a request that succeeds; d is the state of
\* the screen the request addresses.
DriverAnswer(gen, dev, cmd, d, sink) ==
    IF dev = "fb" THEN 0
    ELSE IF gen = DE_VERSION_1 THEN
        CASE cmd = DE1_CMD_SCN_GET_WIDTH -> d.scn_w
          [] cmd = DE1_CMD_SCN_GET_HEIGHT -> d.scn_h
          [] cmd = DE1_CMD_GET_OUTPUT_TYPE -> d.type
          [] cmd = DE1_CMD_HDMI_GET_MODE -> d.mode
          [] cmd = DE1_CMD_HDMI_SUPPORT_MODE -> sink
          [] cmd = DE1_CMD_HDMI_GET_HPD -> sink
          [] OTHER -> 0
    ELSE
        CASE cmd = DE2_CMD_GET_SCN_WIDTH -> d.scn_w
          [] cmd = DE2_CMD_GET_SCN_HEIGHT -> d.scn_h
          [] cmd = DE2_CMD_GET_OUTPUT_TYPE -> d.type
          [] cmd = DE2_CMD_HDMI_SUPPORT_MODE -> sink
          [] OTHER -> 0

\* What a request that succeeds writes back through its pointer argument.
DriverOut(gen, dev, cmd, d, fb) ==
    IF dev = "fb" /\ cmd = FBIOGET_VSCREENINFO THEN fb
    ELSE IF dev = "disp" /\ gen = DE_VERSION_2 /\ cmd = DE2_CMD_GET_OUTPUT
    THEN [type |-> d.type, mode |-> d.mode]
    ELSE << >>

\* The driver state of one screen after a request that succeeds.
DriverScreen(gen, cmd, args, d) ==
    IF gen = DE_VERSION_1 THEN
        CASE cmd = DE1_CMD_HDMI_ON -> [d EXCEPT !.type = DISP_OUTPUT_TYPE_HDMI]
          [] cmd = DE1_CMD_HDMI_OFF -> [d EXCEPT !.type = DISP_OUTPUT_TYPE_NONE]
          [] cmd = DE1_CMD_HDMI_SET_MODE -> [d EXCEPT !.mode = args[2]]
          [] OTHER -> d
    ELSE IF gen = DE_VERSION_2 /\ cmd = DE2_CMD_DEVICE_SWITCH
    THEN [d EXCEPT !.type = args[2], !.mode = args[3]]
    ELSE d

\* The framebuffer geometry after a request that succeeds.  A generation-1
\* framebuffer request creates the framebuffer with the requested size and
\* buffer_num buffers; a geometry write stores what was written.
DriverFb(gen, dev, cmd, data, fb) ==
    IF dev = "fb" /\ cmd = FBIOPUT_VSCREENINFO
    THEN [xres |-> data[1], yres |-> data[2], xres_virtual |-> data[3],
          yres_virtual |-> data[4], bits_per_pixel |-> data[5],
          rgba |-> SubSeq(data, 6, 13)]
    ELSE IF dev = "disp" /\ gen = DE_VERSION_1 /\ cmd = DE1_CMD_FB_REQUEST
    THEN [fb EXCEPT !.xres = data[4], !.yres = data[5],
                    !.xres_virtual = data[4], !.yres_virtual = data[5] * data[3]]
    ELSE fb

\* the screen a display-control request addresses: args[0], except for the
\* framebuffer requests, whose args[0] is the framebuffer id
ScreenOf(cmd, args, data) ==
    IF cmd = DE1_CMD_FB_REQUEST THEN data[8]
    ELSE IF cmd = DE1_CMD_FB_RELEASE THEN 0
    ELSE args[1]

\* ioctl(fd, cmd, args)
sys_ioctl(w, fd, cmd, args, data) ==
    LET dev == w.fdtab[FdSlot(fd)].dev
        after_o(o) ==
            LET scr == IF dev = "disp" THEN ScreenOf(cmd, args, data) ELSE 0
                d == w.drv[scr]
                after_res(res) ==
                    LET err == IF o = "enotty" THEN "ENOTTY" ELSE IF o = "err" THEN "EINVAL" ELSE "0"
                    IN  [w EXCEPT !.orc = Tail(@),
                                  !.calls = Append(@, Call("ioctl", dev, cmd, args, data, res, err)),
                                  !.drv[scr] = IF o = "ok" /\ dev = "disp"
                                               THEN DriverScreen(hw, cmd, args, d) ELSE @,
                                  !.fbdev = IF o = "ok" THEN DriverFb(hw, dev, cmd, data, @) ELSE @,
                                  !.out = IF o = "ok" THEN DriverOut(hw, dev, cmd, d, w.fbdev) ELSE << >>,
                                  !.errno = IF o = "ok" THEN @ ELSE err,
                                  !.r = res]
            IN  after_res(IF o = "ok" THEN DriverAnswer(hw, dev, cmd, d, w.sink) ELSE 0 - 1)
    IN  after_o(IF dev = "disp" /\ cmd \notin Dialect(hw) THEN "enotty" ELSE Head(w.orc))

-----------------------------------------------------------------------------
(* Display engine version detection *)

\* strstr(h, n) != NULL
StrStr(h, n) ==
    \E i \in 1..(Len(h) - Len(n) + 1) : \A j \in 1..Len(n) : h[i + j - 1] = n[j]

\* the string literals of the hardware-identity scan
SocId ==
    [Hardware |-> <<"H","a","r","d","w","a","r","e">>,
     sun7i |-> <<"s","u","n","7","i">>,
     A20 |-> <<"A","2","0">>,
     sun4i |-> <<"s","u","n","4","i">>,
     A10 |-> <<"A","1","0">>,
     sun8i |-> <<"s","u","n","8","i">>,
     H3 |-> <<"H","3">>,
     H5 |-> <<"H","5">>,
     sun50i |-> <<"s","u","n","5","0","i">>,
     A64 |-> <<"A","6","4">>]

\* the decision taken on the first line that contains "Hardware"
SocOfLine(line) ==
    IF StrStr(line, SocId.sun7i) \/ StrStr(line, SocId.A20) \/
       StrStr(line, SocId.sun4i) \/ StrStr(line, SocId.A10)
    THEN DE_VERSION_1
    ELSE IF StrStr(line, SocId.sun8i) \/ StrStr(line, SocId.H3) \/ StrStr(line, SocId.H5) \/
            StrStr(line, SocId.sun50i) \/ StrStr(line, SocId.A64)
    THEN DE_VERSION_2
    ELSE DE_VERSION_UNKNOWN

\* the scan that goes on to later lines when a "Hardware" line names no SoC
RECURSIVE SocFromLinesUntilMatch(_, _)
SocFromLinesUntilMatch(lines, i) ==
    IF i > Len(lines) THEN DE_VERSION_UNKNOWN
    ELSE IF StrStr(lines[i], SocId.Hardware) /\ SocOfLine(lines[i]) # DE_VERSION_UNKNOWN
    THEN SocOfLine(lines[i])
    ELSE SocFromLinesUntilMatch(lines, i + 1)

RECURSIVE SocFromLines(_, _)
SocFromLines(lines, i) ==
    IF i > Len(lines) THEN DE_VERSION_UNKNOWN
    ELSE IF StrStr(lines[i], SocId.Hardware) THEN SocOfLine(lines[i])
    ELSE SocFromLines(lines, i + 1)

\* detect_soc_from_cpuinfo(): reads the file, issues no device call
detect_soc_from_cpuinfo(w) ==
    IF ~cpuinfo.exists THEN Return(w, DE_VERSION_UNKNOWN)
    ELSE Return(w, SocFromLines(cpuinfo.lines, 1))

\* detect_by_ioctl_probe that probes generation 1 with the disable-output command
detect_by_ioctl_probe_switching(w, fd) ==
    LET after_a(a) ==
            IF a.r >= 0 \/ a.errno # "ENOTTY" THEN Return(a, DE_VERSION_1)
            ELSE LET after_b(b) ==
                         IF b.r >= 0 \/ b.errno # "ENOTTY" THEN Return(b, DE_VERSION_2)
                         ELSE Return(b, DE_VERSION_UNKNOWN)
                 IN  after_b(sys_ioctl(a, fd, DE2_CMD_HDMI_SUPPORT_MODE,
                                       <<0, DISP_TV_MOD_720P_60HZ, 0, 0>>, << >>))
    IN  after_a(sys_ioctl(w, fd, DE1_CMD_HDMI_OFF, <<0, 0, 0, 0>>, << >>))

\* detect_by_ioctl_probe(fd)
detect_by_ioctl_probe(w, fd) ==
    LET after_a(a) ==
            IF a.r >= 0 \/ a.errno # "ENOTTY" THEN Return(a, DE_VERSION_1)
            ELSE LET after_b(b) ==
                         IF b.r >= 0 \/ b.errno # "ENOTTY" THEN Return(b, DE_VERSION_2)
                         ELSE Return(b, DE_VERSION_UNKNOWN)
                 IN  after_b(sys_ioctl(a, fd, DE2_CMD_HDMI_SUPPORT_MODE,
                                       <<0, DISP_TV_MOD_720P_60HZ, 0, 0>>, << >>))
    IN  after_a(sys_ioctl(w, fd, DE1_CMD_HDMI_GET_HPD, <<0, 0, 0, 0>>, << >>))

\* detect_de_version that probes the driver before it reads /proc/cpuinfo
detect_de_version_probe_first(w, fd) ==
    LET after_a(a) ==
            IF a.r # DE_VERSION_UNKNOWN THEN a
            ELSE LET after_b(b) ==
                         IF b.r # DE_VERSION_UNKNOWN THEN b
                         ELSE Return(b, DE_VERSION_1)
                 IN  after_b(detect_soc_from_cpuinfo(a))
    IN  after_a(detect_by_ioctl_probe(w, fd))

\* detect_de_version(fd)
detect_de_version(w, fd) ==
    LET after_a(a) ==
            IF a.r # DE_VERSION_UNKNOWN THEN a
            ELSE LET after_b(b) ==
                         IF b.r # DE_VERSION_UNKNOWN THEN b
                         ELSE Return(b, DE_VERSION_1)
                 IN  after_b(detect_by_ioctl_probe(a, fd))
    IN  after_a(detect_soc_from_cpuinfo(w))

-----------------------------------------------------------------------------
(* Device open / close and the ioctl wrapper *)

\* disp_open without the test for a device that is open already
disp_open_unguarded(w) ==
    LET after_a(a) ==
            IF a.r < 0 THEN Return([a EXCEPT !.g_disp_fd = a.r], 0 - 1)
            ELSE LET after_b(b) ==
                         Return([b EXCEPT !.g_de_version = b.r, !.ndetect = @ + 1], 0)
                 IN  after_b(detect_de_version([a EXCEPT !.g_disp_fd = a.r], a.r))
    IN  after_a(sys_open(w, "disp"))

disp_open(w) ==
    IF w.g_disp_fd >= 0 THEN Return(w, 0)
    ELSE LET after_a(a) ==
                 IF a.r < 0 THEN Return([a EXCEPT !.g_disp_fd = a.r], 0 - 1)
                 ELSE LET after_b(b) ==
                              Return([b EXCEPT !.g_de_version = b.r, !.ndetect = @ + 1], 0)
                      IN  after_b(detect_de_version([a EXCEPT !.g_disp_fd = a.r], a.r))
         IN  after_a(sys_open(w, "disp"))

disp_close(w) ==
    IF w.g_disp_fd >= 0
    THEN [sys_close(w, w.g_disp_fd) EXCEPT !.g_disp_fd = 0 - 1]
    ELSE w

disp_ioctl(w, cmd, args, data) ==
    IF w.g_disp_fd < 0 THEN Return(w, 0 - 1)
    ELSE sys_ioctl(w, w.g_disp_fd, cmd, args, data)

-----------------------------------------------------------------------------
(* DE1 (A20) implementation *)

ScreenSize(w, h) == [width |-> w, height |-> h]

de1_get_screen_size(w) ==
    LET after_a(a) ==
            IF a.r < 0 THEN Return(a, 0 - 1)
            ELSE LET after_b(b) ==
                         IF b.r < 0 THEN Return(b, 0 - 1)
                         ELSE [b EXCEPT !.r = 0, !.out = ScreenSize(Uint32(a.r), Uint32(b.r))]
                 IN  after_b(disp_ioctl(a, DE1_CMD_SCN_GET_HEIGHT, <<w.g_screen, 0, 0, 0>>, << >>))
    IN  after_a(disp_ioctl(w, DE1_CMD_SCN_GET_WIDTH, <<w.g_screen, 0, 0, 0>>, << >>))

de1_get_output_type(w) ==
    disp_ioctl(w, DE1_CMD_GET_OUTPUT_TYPE, <<w.g_screen, 0, 0, 0>>, << >>)

de1_hdmi_get_hpd(w) ==
    disp_ioctl(w, DE1_CMD_HDMI_GET_HPD, <<w.g_screen, 0, 0, 0>>, << >>)

de1_hdmi_mode_supported(w, mode) ==
    LET after_a(a) ==
            Return(a, IF a.r > 0 THEN 1 ELSE 0)
    IN  after_a(disp_ioctl(w, DE1_CMD_HDMI_SUPPORT_MODE, <<w.g_screen, mode, 0, 0>>, << >>))

de1_hdmi_get_mode(w) ==
    LET after_a(a) ==
            Return(a, IF a.r < 0 THEN 0 - 1 ELSE a.r)
    IN  after_a(disp_ioctl(w, DE1_CMD_HDMI_GET_MODE, <<w.g_screen, 0, 0, 0>>, << >>))

de1_hdmi_off(w) ==
    disp_ioctl(w, DE1_CMD_HDMI_OFF, <<w.g_screen, 0, 0, 0>>, << >>)

de1_hdmi_on(w) ==
    disp_ioctl(w, DE1_CMD_HDMI_ON, <<w.g_screen, 0, 0, 0>>, << >>)

de1_hdmi_set_mode(w, mode) ==
    disp_ioctl(w, DE1_CMD_HDMI_SET_MODE, <<w.g_screen, mode, 0, 0>>, << >>)

\* de1_hdmi_init that queries the support and goes on whatever the answer
de1_hdmi_init_unchecked(w, mode) ==
    LET s == IF w.g_force = 0 THEN de1_hdmi_mode_supported(w, mode) ELSE w
        a == de1_hdmi_off(s)
        after_b(b) ==
            IF b.r < 0 THEN Return(b, 0 - 1)
            ELSE de1_hdmi_on(b)
    IN  after_b(de1_hdmi_set_mode(a, mode))

\* de1_hdmi_init that enables the output whether or not the mode was set
de1_hdmi_init_enables_anyway(w, mode) ==
    LET after_s(s) ==
            IF w.g_force = 0 /\ s.r = 0 THEN Return(s, 0 - 1)
            ELSE LET a == de1_hdmi_off(s)
                     after_b(b) ==
                         de1_hdmi_on(b)
                 IN  after_b(de1_hdmi_set_mode(a, mode))
    IN  after_s(IF w.g_force = 0 THEN de1_hdmi_mode_supported(w, mode) ELSE w)

de1_hdmi_init(w, mode) ==
    LET after_s(s) ==
            IF w.g_force = 0 /\ s.r = 0 THEN Return(s, 0 - 1)
            ELSE LET a == de1_hdmi_off(s)
                     after_b(b) ==
                         IF b.r < 0 THEN Return(b, 0 - 1)
                         ELSE de1_hdmi_on(b)
                 IN  after_b(de1_hdmi_set_mode(a, mode))
    IN  after_s(IF w.g_force = 0 THEN de1_hdmi_mode_supported(w, mode) ELSE w)

de1_fb_release(w, fb_id) ==
    disp_ioctl(w, DE1_CMD_FB_RELEASE, <<fb_id, 0, 0, 0>>, << >>)

\* para is de1_fb_create_para_t, field by field
de1_fb_request(w, fb_id, para) ==
    disp_ioctl(w, DE1_CMD_FB_REQUEST, <<fb_id, 0, 0, 0>>, para)

\* de1_fb_create_para_t after memset and population: fb_mode, mode,
\* buffer_num, width, height, output_width, output_height,
\* primary_screen_id, aux_output_width, aux_output_height, line_length,
\* smem_len, ch1_offset, ch2_offset
De1Para(mode, fb_w, fb_h, scn_w, scn_h, screen) ==
    <<DE1_FB_MODE_SCREEN0, mode, 1, fb_w, fb_h, scn_w, scn_h, screen, 0, 0, 0, 0, 0, 0>>

\* de1_setup_fb_with_scaling that gives up when the release fails
de1_setup_fb_with_scaling_strict_release(w, fb_id, fb_w, fb_h, scn_w, scn_h, depth) ==
    LET needs_scaling == fb_w # scn_w \/ fb_h # scn_h
        para == De1Para(IF needs_scaling THEN DE1_LAYER_WORK_MODE_SCALER
                        ELSE DE1_LAYER_WORK_MODE_NORMAL,
                        fb_w, fb_h, scn_w, scn_h, w.g_screen)
        after_b(b) ==
            IF b.r < 0 THEN Return(b, 0 - 1) ELSE Return(b, 0)
        after_a(a) ==
            IF a.r < 0 THEN Return(a, 0 - 1)
            ELSE after_b(de1_fb_request(a, fb_id, para))
    IN  after_a(de1_fb_release(w, fb_id))

\* de1_setup_fb_with_scaling that compares the widths only
de1_setup_fb_with_scaling_by_width(w, fb_id, fb_w, fb_h, scn_w, scn_h, depth) ==
    LET needs_scaling == fb_w # scn_w
        a == de1_fb_release(w, fb_id)
        para == De1Para(IF needs_scaling THEN DE1_LAYER_WORK_MODE_SCALER
                        ELSE DE1_LAYER_WORK_MODE_NORMAL,
                        fb_w, fb_h, scn_w, scn_h, w.g_screen)
        after_b(b) ==
            IF b.r < 0 THEN Return(b, 0 - 1) ELSE Return(b, 0)
    IN  after_b(de1_fb_request(a, fb_id, para))

de1_setup_fb_with_scaling(w, fb_id, fb_w, fb_h, scn_w, scn_h, depth) ==
    LET needs_scaling == fb_w # scn_w \/ fb_h # scn_h
        a == de1_fb_release(w, fb_id)
        para == De1Para(IF needs_scaling THEN DE1_LAYER_WORK_MODE_SCALER
                        ELSE DE1_LAYER_WORK_MODE_NORMAL,
                        fb_w, fb_h, scn_w, scn_h, w.g_screen)
        after_b(b) ==
            IF b.r < 0 THEN Return(b, 0 - 1) ELSE Return(b, 0)
    IN  after_b(de1_fb_request(a, fb_id, para))

-----------------------------------------------------------------------------
(* DE2 (H3) implementation *)

de2_get_screen_size(w) ==
    LET after_a(a) ==
            IF a.r < 0 THEN Return(a, 0 - 1)
            ELSE LET after_b(b) ==
                         IF b.r < 0 THEN Return(b, 0 - 1)
                         ELSE [b EXCEPT !.r = 0, !.out = ScreenSize(Uint32(a.r), Uint32(b.r))]
                 IN  after_b(disp_ioctl(a, DE2_CMD_GET_SCN_HEIGHT, <<w.g_screen, 0, 0, 0>>, << >>))
    IN  after_a(disp_ioctl(w, DE2_CMD_GET_SCN_WIDTH, <<w.g_screen, 0, 0, 0>>, << >>))

de2_get_output_type(w) ==
    disp_ioctl(w, DE2_CMD_GET_OUTPUT_TYPE, <<w.g_screen, 0, 0, 0>>, << >>)

de2_hdmi_mode_supported(w, mode) ==
    LET after_a(a) ==
            Return(a, IF a.r > 0 THEN 1 ELSE 0)
    IN  after_a(disp_ioctl(w, DE2_CMD_HDMI_SUPPORT_MODE, <<w.g_screen, mode, 0, 0>>, << >>))

\* fopen / fscanf("%d") / fclose on the hot-plug switch state
ReadHdmiState(w) ==
    LET after_c(c) ==
            IF hdmi_state.exists /\ c.n = 1
            THEN [found |-> TRUE, state |-> c.vals[1]]
            ELSE [found |-> FALSE, state |-> 0]
    IN  after_c(Sscanf(hdmi_state.text, <<"%d">>))

\* de2_hdmi_get_hpd that reports a display it cannot see as disconnected
de2_hdmi_get_hpd_coerced(w) ==
    LET after_f(f) ==
            IF f.found THEN Return(w, f.state) ELSE Return(w, 0)
    IN  after_f(ReadHdmiState(w))

de2_hdmi_get_hpd(w) ==
    LET after_f(f) ==
            IF f.found THEN Return(w, f.state) ELSE Return(w, 0 - 1)
    IN  after_f(ReadHdmiState(w))

\* output is de2_output, zeroed before the call
de2_hdmi_get_mode(w) ==
    LET after_a(a) ==
            IF a.r < 0 THEN Return(a, 0 - 1)
            ELSE Return(a, a.out.mode)
    IN  after_a(disp_ioctl(w, DE2_CMD_GET_OUTPUT, <<w.g_screen, 0, 0, 0>>, <<0, 0>>))

de2_device_switch(w, type, mode) ==
    disp_ioctl(w, DE2_CMD_DEVICE_SWITCH, <<w.g_screen, type, mode, 0>>, << >>)

\* de2_hdmi_init that checks the support whatever the force flag
de2_hdmi_init_ignores_force(w, mode) ==
    LET after_s(s) ==
            IF s.r = 0 THEN Return(s, 0 - 1)
            ELSE de2_device_switch(s, DISP_OUTPUT_TYPE_HDMI, mode)
    IN  after_s(de2_hdmi_mode_supported(w, mode))

\* de2_hdmi_init that switches the output before it reports the rejection
de2_hdmi_init_switches_anyway(w, mode) ==
    LET after_s(s) ==
            IF w.g_force = 0 /\ s.r = 0
            THEN Return(de2_device_switch(s, DISP_OUTPUT_TYPE_HDMI, mode), 0 - 1)
            ELSE de2_device_switch(s, DISP_OUTPUT_TYPE_HDMI, mode)
    IN  after_s(IF w.g_force = 0 THEN de2_hdmi_mode_supported(w, mode) ELSE w)

de2_hdmi_init(w, mode) ==
    LET after_s(s) ==
            IF w.g_force = 0 /\ s.r = 0 THEN Return(s, 0 - 1)
            ELSE de2_device_switch(s, DISP_OUTPUT_TYPE_HDMI, mode)
    IN  after_s(IF w.g_force = 0 THEN de2_hdmi_mode_supported(w, mode) ELSE w)

de2_hdmi_off(w) == de2_device_switch(w, DISP_OUTPUT_TYPE_NONE, 0)

\* the colour layout both geometry writers choose for a depth; another
\* depth leaves the layout that was read
ColorFormat(depth, old) ==
    IF depth = 16 THEN <<11, 5, 5, 6, 0, 5, 0, 0>>
    ELSE IF depth = 24 THEN <<16, 8, 8, 8, 0, 8, 0, 0>>
    ELSE IF depth = 32 THEN <<16, 8, 8, 8, 0, 8, 24, 8>>
    ELSE old

\* de2_setup_fb_with_scaling that asks for one buffer
de2_setup_fb_with_scaling_single_buffer(w, fb_id, fb_w, fb_h, scn_w, scn_h, depth) ==
    LET after_a(a) ==
            LET fd == a.r
                after_b(b) ==
                    LET v == b.out
                        nv == [xres |-> fb_w, yres |-> fb_h, xres_virtual |-> fb_w,
                               yres_virtual |-> fb_h,
                               bits_per_pixel |-> Uint32(depth),
                               rgba |-> ColorFormat(depth, v.rgba)]
                        after_c(c) ==
                            IF a.r < 0 THEN Return(a, 0 - 1)
                            ELSE IF b.r < 0 THEN Return(sys_close(b, fd), 0 - 1)
                            ELSE IF v.xres # fb_w \/ v.yres # fb_h \/ v.bits_per_pixel # Uint32(depth)
                            THEN IF c.r < 0 THEN Return(sys_close(c, fd), 0 - 1)
                                 ELSE Return(sys_close(c, fd), 0)
                            ELSE Return(sys_close(b, fd), 0)
                    IN  after_c(sys_ioctl(b, fd, FBIOPUT_VSCREENINFO, << >>, VinfoData(nv)))
            IN  after_b(sys_ioctl(a, fd, FBIOGET_VSCREENINFO, << >>, << >>))
    IN  after_a(sys_open(w, "fb"))

\* de2_setup_fb_with_scaling that writes the geometry without comparing
de2_setup_fb_with_scaling_rewrite(w, fb_id, fb_w, fb_h, scn_w, scn_h, depth) ==
    LET after_a(a) ==
            LET fd == a.r
                after_b(b) ==
                    LET v == b.out
                        nv == [xres |-> fb_w, yres |-> fb_h, xres_virtual |-> fb_w,
                               yres_virtual |-> Uint32(fb_h * 2),
                               bits_per_pixel |-> Uint32(depth),
                               rgba |-> ColorFormat(depth, v.rgba)]
                        after_c(c) ==
                            IF a.r < 0 THEN Return(a, 0 - 1)
                            ELSE IF b.r < 0 THEN Return(sys_close(b, fd), 0 - 1)
                            ELSE IF c.r < 0 THEN Return(sys_close(c, fd), 0 - 1)
                            ELSE Return(sys_close(c, fd), 0)
                    IN  after_c(sys_ioctl(b, fd, FBIOPUT_VSCREENINFO, << >>, VinfoData(nv)))
            IN  after_b(sys_ioctl(a, fd, FBIOGET_VSCREENINFO, << >>, << >>))
    IN  after_a(sys_open(w, "fb"))

de2_setup_fb_with_scaling(w, fb_id, fb_w, fb_h, scn_w, scn_h, depth) ==
    LET after_a(a) ==
            LET fd == a.r
                after_b(b) ==
                    LET v == b.out
                        nv == [xres |-> fb_w, yres |-> fb_h, xres_virtual |-> fb_w,
                               yres_virtual |-> Uint32(fb_h * 2),
                               bits_per_pixel |-> Uint32(depth),
                               rgba |-> ColorFormat(depth, v.rgba)]
                        after_c(c) ==
                            IF a.r < 0 THEN Return(a, 0 - 1)
                            ELSE IF b.r < 0 THEN Return(sys_close(b, fd), 0 - 1)
                            ELSE IF v.xres # fb_w \/ v.yres # fb_h \/ v.bits_per_pixel # Uint32(depth)
                            THEN IF c.r < 0 THEN Return(sys_close(c, fd), 0 - 1)
                                 ELSE Return(sys_close(c, fd), 0)
                            ELSE Return(sys_close(b, fd), 0)
                    IN  after_c(sys_ioctl(b, fd, FBIOPUT_VSCREENINFO, << >>, VinfoData(nv)))
            IN  after_b(sys_ioctl(a, fd, FBIOGET_VSCREENINFO, << >>, << >>))
    IN  after_a(sys_open(w, "fb"))

-----------------------------------------------------------------------------
(* Unified API: dispatch on g_de_version *)

get_screen_size(w) ==
    IF w.g_de_version = DE_VERSION_1 THEN de1_get_screen_size(w)
    ELSE IF w.g_de_version = DE_VERSION_2 THEN de2_get_screen_size(w)
    ELSE Return(w, 0 - 1)

\* get_output_type that asks with the generation-1 command on both generations
get_output_type_by_de1(w) ==
    IF w.g_de_version \in {DE_VERSION_1, DE_VERSION_2} THEN de1_get_output_type(w)
    ELSE Return(w, 0 - 1)

get_output_type(w) ==
    IF w.g_de_version = DE_VERSION_1 THEN de1_get_output_type(w)
    ELSE IF w.g_de_version = DE_VERSION_2 THEN de2_get_output_type(w)
    ELSE Return(w, 0 - 1)

hdmi_get_hpd(w) ==
    LET after_f(f) ==
            IF f.found THEN Return(w, f.state)
            ELSE IF w.g_de_version = DE_VERSION_1 THEN de1_hdmi_get_hpd(w)
            ELSE IF w.g_de_version = DE_VERSION_2 THEN de2_hdmi_get_hpd(w)
            ELSE Return(w, 0 - 1)
    IN  after_f(ReadHdmiState(w))

hdmi_mode_supported(w, mode) ==
    IF w.g_de_version = DE_VERSION_1 THEN de1_hdmi_mode_supported(w, mode)
    ELSE IF w.g_de_version = DE_VERSION_2 THEN de2_hdmi_mode_supported(w, mode)
    ELSE Return(w, 0)

hdmi_get_mode(w) ==
    IF w.g_de_version = DE_VERSION_1 THEN de1_hdmi_get_mode(w)
    ELSE IF w.g_de_version = DE_VERSION_2 THEN de2_hdmi_get_mode(w)
    ELSE Return(w, 0 - 1)

hdmi_init(w, mode) ==
    IF w.g_de_version = DE_VERSION_1 THEN de1_hdmi_init(w, mode)
    ELSE IF w.g_de_version = DE_VERSION_2 THEN de2_hdmi_init(w, mode)
    ELSE Return(w, 0 - 1)

\* hdmi_on that replaces only a mode that could not be read or is 480i
hdmi_on_keeps_576i(w) ==
    IF w.g_de_version = DE_VERSION_1
    THEN LET after_a(a) ==
                 IF a.r < 0
                 THEN LET saved_force == a.g_force
                          b == de1_hdmi_init([a EXCEPT !.g_force = 1], DEFAULT_HDMI_MODE)
                      IN  [b EXCEPT !.g_force = saved_force]
                 ELSE a
         IN  after_a(de1_hdmi_on(w))
    ELSE IF w.g_de_version = DE_VERSION_2
    THEN LET after_a(a) ==
                 LET mode == IF a.r <= 0 THEN DEFAULT_HDMI_MODE ELSE a.r
                     saved_force == a.g_force
                     b == de2_hdmi_init([a EXCEPT !.g_force = 1], mode)
                 IN  [b EXCEPT !.g_force = saved_force]
         IN  after_a(hdmi_get_mode(w))
    ELSE Return(w, 0 - 1)

\* hdmi_on whose generation-1 fallback runs with the caller's force flag
hdmi_on_unforced(w) ==
    IF w.g_de_version = DE_VERSION_1
    THEN LET after_a(a) ==
                 IF a.r < 0 THEN de1_hdmi_init(a, DEFAULT_HDMI_MODE) ELSE a
         IN  after_a(de1_hdmi_on(w))
    ELSE IF w.g_de_version = DE_VERSION_2
    THEN LET after_a(a) ==
                 LET mode == IF a.r <= 0 \/ a.r = DISP_TV_MOD_480I \/ a.r = DISP_TV_MOD_576I
                             THEN DEFAULT_HDMI_MODE ELSE a.r
                     saved_force == a.g_force
                     b == de2_hdmi_init([a EXCEPT !.g_force = 1], mode)
                 IN  [b EXCEPT !.g_force = saved_force]
         IN  after_a(hdmi_get_mode(w))
    ELSE Return(w, 0 - 1)

\* hdmi_on that leaves g_force set after its forced initialisation
hdmi_on_leaky(w) ==
    IF w.g_de_version = DE_VERSION_1
    THEN LET after_a(a) ==
                 IF a.r < 0
                 THEN de1_hdmi_init([a EXCEPT !.g_force = 1], DEFAULT_HDMI_MODE)
                 ELSE a
         IN  after_a(de1_hdmi_on(w))
    ELSE IF w.g_de_version = DE_VERSION_2
    THEN LET after_a(a) ==
                 LET mode == IF a.r <= 0 \/ a.r = DISP_TV_MOD_480I \/ a.r = DISP_TV_MOD_576I
                             THEN DEFAULT_HDMI_MODE ELSE a.r
                 IN  de2_hdmi_init([a EXCEPT !.g_force = 1], mode)
         IN  after_a(hdmi_get_mode(w))
    ELSE Return(w, 0 - 1)

hdmi_on(w) ==
    IF w.g_de_version = DE_VERSION_1
    THEN LET after_a(a) ==
                 IF a.r < 0
                 THEN LET saved_force == a.g_force
                          b == de1_hdmi_init([a EXCEPT !.g_force = 1], DEFAULT_HDMI_MODE)
                      IN  [b EXCEPT !.g_force = saved_force]
                 ELSE a
         IN  after_a(de1_hdmi_on(w))
    ELSE IF w.g_de_version = DE_VERSION_2
    THEN LET after_a(a) ==
                 LET mode == IF a.r <= 0 \/ a.r = DISP_TV_MOD_480I \/ a.r = DISP_TV_MOD_576I
                             THEN DEFAULT_HDMI_MODE ELSE a.r
                     saved_force == a.g_force
                     b == de2_hdmi_init([a EXCEPT !.g_force = 1], mode)
                 IN  [b EXCEPT !.g_force = saved_force]
         IN  after_a(hdmi_get_mode(w))
    ELSE Return(w, 0 - 1)

hdmi_off(w) ==
    IF w.g_de_version = DE_VERSION_1 THEN de1_hdmi_off(w)
    ELSE IF w.g_de_version = DE_VERSION_2 THEN de2_hdmi_off(w)
    ELSE Return(w, 0 - 1)

setup_fb_with_scaling(w, fb_id, fb_w, fb_h, scn_w, scn_h, depth) ==
    IF w.g_de_version = DE_VERSION_1
    THEN de1_setup_fb_with_scaling(w, fb_id, fb_w, fb_h, scn_w, scn_h, depth)
    ELSE IF w.g_de_version = DE_VERSION_2
    THEN de2_setup_fb_with_scaling(w, fb_id, fb_w, fb_h, scn_w, scn_h, depth)
    ELSE Return(w, 0 - 1)

-----------------------------------------------------------------------------
(* Framebuffer configuration via fbdev *)

\* fb_configure whose failure paths close g_fb_fd and keep its value
fb_configure_keeps_fd(w, width, height, depth) ==
    LET after_a(a) ==
            LET a1 == [a EXCEPT !.g_fb_fd = a.r]
                after_b(b) ==
                    LET v == b.out
                        nv == [xres |-> width, yres |-> height, xres_virtual |-> width,
                               yres_virtual |-> height, bits_per_pixel |-> Uint32(depth),
                               rgba |-> ColorFormat(depth, v.rgba)]
                        after_c(c) ==
                            LET after_d(d) ==
                                    LET Fail(x) == Return(sys_close(x, x.g_fb_fd), 0 - 1)
                                    IN  IF a.r < 0 THEN Return(a1, 0 - 1)
                                        ELSE IF b.r < 0 THEN Fail(b)
                                        ELSE IF c.r < 0 THEN Fail(c)
                                        ELSE IF d.r < 0 THEN Fail(d)
                                        ELSE Return(d, 0)
                            IN  after_d(sys_ioctl(c, c.g_fb_fd, FBIOGET_FSCREENINFO, << >>, << >>))
                    IN  after_c(sys_ioctl(b, b.g_fb_fd, FBIOPUT_VSCREENINFO, << >>, VinfoData(nv)))
            IN  after_b(sys_ioctl(a1, a1.g_fb_fd, FBIOGET_VSCREENINFO, << >>, << >>))
    IN  after_a(sys_open(w, "fb"))

fb_configure(w, width, height, depth) ==
    LET after_a(a) ==
            LET a1 == [a EXCEPT !.g_fb_fd = a.r]
                after_b(b) ==
                    LET v == b.out
                        nv == [xres |-> width, yres |-> height, xres_virtual |-> width,
                               yres_virtual |-> height, bits_per_pixel |-> Uint32(depth),
                               rgba |-> ColorFormat(depth, v.rgba)]
                        after_c(c) ==
                            LET after_d(d) ==
                                    LET Fail(x) == Return([sys_close(x, x.g_fb_fd) EXCEPT !.g_fb_fd = 0 - 1], 0 - 1)
                                    IN  IF a.r < 0 THEN Return(a1, 0 - 1)
                                        ELSE IF b.r < 0 THEN Fail(b)
                                        ELSE IF c.r < 0 THEN Fail(c)
                                        ELSE IF d.r < 0 THEN Fail(d)
                                        ELSE Return(d, 0)
                            IN  after_d(sys_ioctl(c, c.g_fb_fd, FBIOGET_FSCREENINFO, << >>, << >>))
                    IN  after_c(sys_ioctl(b, b.g_fb_fd, FBIOPUT_VSCREENINFO, << >>, VinfoData(nv)))
            IN  after_b(sys_ioctl(a1, a1.g_fb_fd, FBIOGET_VSCREENINFO, << >>, << >>))
    IN  after_a(sys_open(w, "fb"))

\* get_fb_info(vinfo, finfo): want_v / want_f say which pointer is non-NULL;
\* out is the vinfo read
get_fb_info(w, want_v, want_f) ==
    LET after_a(a) ==
            LET fd == a.r
                after_b(b) ==
                    LET v == b.out
                        after_c(c) ==
                            IF a.r < 0 THEN Return(a, 0 - 1)
                            ELSE IF want_v /\ b.r < 0 THEN Return(sys_close(b, fd), 0 - 1)
                            ELSE IF want_f /\ c.r < 0 THEN Return(sys_close(c, fd), 0 - 1)
                            ELSE [sys_close(c, fd) EXCEPT !.r = 0, !.out = v]
                    IN  after_c(IF want_f THEN sys_ioctl(b, fd, FBIOGET_FSCREENINFO, << >>, << >>) ELSE b)
            IN  after_b(IF want_v THEN sys_ioctl(a, fd, FBIOGET_VSCREENINFO, << >>, << >>) ELSE a)
    IN  after_a(sys_open(w, "fb"))

-----------------------------------------------------------------------------
(* Information display *)

\* the loop over mode_table that queries the support of each mode
RECURSIVE SupportedModes(_, _)
SupportedModes(w, i) ==
    IF i > Len(mode_table) THEN w
    ELSE IF w.g_de_version = DE_VERSION_1 /\
            mode_table[i].mode >= DISP_TV_MOD_3840_2160P_30HZ
    THEN SupportedModes(w, i + 1)
    ELSE SupportedModes(hdmi_mode_supported(w, mode_table[i].mode), i + 1)

\* printf of one report line; args are the numbers it formats
printf(w, line, text, args) ==
    [w EXCEPT !.printed = Append(@, [line |-> line, text |-> text, args |-> args])]

\* show_info(): of what it prints, the hot-plug, screen-size, framebuffer
\* and scaling lines are kept
show_info(w) ==
    LET after_hpd(b) ==
            LET pb == printf(b, "HDMI Hot Plug",
                            IF b.r > 0 THEN "Connected"
                            ELSE IF b.r = 0 THEN "Disconnected" ELSE "Error", <<b.r>>)
                after_size(d) ==
                    LET pd == IF d.r = 0
                              THEN printf(d, "Screen size", "", <<d.out.width, d.out.height>>)
                              ELSE printf(d, "Screen size", "failed to read", << >>)
                        after_e(e) ==
                            LET vinfo == e.out
                                after_f(f) ==
                                    IF f.r # 0 THEN f
                                    ELSE IF vinfo.xres # f.out.width \/ vinfo.yres # f.out.height
                                    THEN printf(f, "Scaling",
                                               IF f.g_de_version = DE_VERSION_2
                                               THEN "active, auto by DE2" ELSE "active",
                                               <<vinfo.xres, vinfo.yres, f.out.width, f.out.height>>)
                                    ELSE printf(f, "Scaling", "none (1:1)", << >>)
                            IN  IF e.r = 0
                                THEN after_f(get_screen_size(
                                         printf(e, "Resolution", "", <<vinfo.xres, vinfo.yres>>)))
                                ELSE printf(e, "Failed to read framebuffer info", "", << >>)
                    IN  SupportedModes(after_e(get_fb_info(pd, TRUE, TRUE)), 1)
            IN  after_size(get_screen_size(hdmi_get_mode(pb)))
    IN  after_hpd(hdmi_get_hpd(get_output_type(w)))

\* show_debug_info(): prints structure sizes, touches nothing
show_debug_info(w) == w

-----------------------------------------------------------------------------
(* main(): command line *)

\* the string literals main compares its arguments with
Lit ==
    [opt_v |-> <<"-","v">>,
     opt_f |-> <<"-","f">>,
     opt_s |-> <<"-","s">>,
     opt_h |-> <<"-","h">>,
     opt_help |-> <<"-","-","h","e","l","p">>,
     info |-> <<"i","n","f","o">>,
     debug |-> <<"d","e","b","u","g">>,
     hdmi |-> <<"h","d","m","i">>,
     on |-> <<"o","n">>,
     off |-> <<"o","f","f">>,
     mode |-> <<"m","o","d","e">>,
     init |-> <<"i","n","i","t">>,
     fb |-> <<"f","b">>,
     set |-> <<"s","e","t">>,
     scale |-> <<"s","c","a","l","e">>,
     autoscale |-> <<"a","u","t","o","s","c","a","l","e">>,
     noscale |-> <<"n","o","s","c","a","l","e">>]

\* argv[k] and argc of the C program
Arg(av, k) == av[k + 1]
Argc(av) == Len(av)

\* the option loop: [exit, code, arg_start, g_force, g_screen]
RECURSIVE ParseOptions(_, _, _, _)
ParseOptions(av, i, force, screen) ==
    IF i < Argc(av) /\ Arg(av, i) # << >> /\ Head(Arg(av, i)) = "-"
    THEN IF Arg(av, i) = Lit.opt_v THEN ParseOptions(av, i + 1, force, screen)
         ELSE IF Arg(av, i) = Lit.opt_f THEN ParseOptions(av, i + 1, 1, screen)
         ELSE IF Arg(av, i) = Lit.opt_s /\ i + 1 < Argc(av)
         THEN LET after_s(s) ==
                      IF s > 1
                      THEN [exit |-> TRUE, code |-> 1, arg_start |-> i,
                            g_force |-> force, g_screen |-> s]
                      ELSE ParseOptions(av, i + 2, force, s)
              IN  after_s(Uint32(AToI(Arg(av, i + 1))))
         ELSE IF Arg(av, i) = Lit.opt_h \/ Arg(av, i) = Lit.opt_help
         THEN [exit |-> TRUE, code |-> 0, arg_start |-> i,
               g_force |-> force, g_screen |-> screen]
         ELSE [exit |-> TRUE, code |-> 1, arg_start |-> i,
               g_force |-> force, g_screen |-> screen]
    ELSE [exit |-> FALSE, code |-> 0, arg_start |-> i,
          g_force |-> force, g_screen |-> screen]

\* the branch of the command chain main takes
Branch(av, i) ==
    LET a0 == Arg(av, i)
    IN  IF a0 = Lit.info THEN "info"
        ELSE IF a0 = Lit.debug THEN "debug"
        ELSE IF a0 = Lit.hdmi /\ Argc(av) >= i + 2
        THEN IF Arg(av, i + 1) = Lit.on THEN "hdmi on"
             ELSE IF Arg(av, i + 1) = Lit.off THEN "hdmi off"
             ELSE IF Arg(av, i + 1) = Lit.mode /\ Argc(av) >= i + 3 THEN "hdmi mode"
             ELSE IF Arg(av, i + 1) = Lit.init /\ Argc(av) >= i + 3 THEN "hdmi init"
             ELSE "usage"
        ELSE IF a0 = Lit.fb /\ Argc(av) >= i + 3
        THEN IF Arg(av, i + 1) = Lit.set THEN "fb set" ELSE "usage"
        ELSE IF a0 = Lit.scale /\ Argc(av) >= i + 4 THEN "scale"
        ELSE IF a0 = Lit.autoscale THEN "autoscale"
        ELSE IF a0 = Lit.noscale THEN "noscale"
        ELSE "usage"

\* the end of a command branch: main's ret, and the depth the branch
\* worked with (empty when it did not get to one)
Result(w, r, depth) == [w EXCEPT !.r = r, !.out = depth]

ValidDepth(depth) == depth = 16 \/ depth = 24 \/ depth = 32

main_hdmi_on(w) ==
    LET after_a(a) ==
            IF a.r = 0 THEN Result(hdmi_get_mode(a), 0, << >>)
            ELSE Result(a, a.r, << >>)
    IN  after_a(hdmi_on(w))

main_hdmi_off(w) ==
    LET after_a(a) ==
            Result(a, a.r, << >>)
    IN  after_a(hdmi_off(w))

main_hdmi_mode(w, mode_arg) ==
    LET after_t(t) ==
            LET at_end == t.endptr > Len(mode_arg)
                numeric == at_end /\ t.val >= 0 /\ t.val < DISP_TV_MODE_NUM
                after_info(info) ==
                    IF numeric /\ info = NoMode
                    THEN LET after_a(a) ==
                                 Result(a, a.r, << >>)
                         IN  after_a(hdmi_init(w, t.val))
                    ELSE IF info # NoMode
                    THEN LET after_a(a) ==
                                 Result(a, a.r, << >>)
                         IN  after_a(hdmi_init(w, info.mode))
                    ELSE IF ~at_end THEN Result(w, 1, << >>)
                    ELSE Result(w, 0, << >>)
            IN  after_info(IF numeric THEN get_mode_info(t.val) ELSE find_mode_by_name(mode_arg))
    IN  after_t(StrToL(mode_arg))

main_hdmi_init(w, res_arg) ==
    LET after_p(p) ==
            LET after_info(info) ==
                    IF p.r # 0 THEN Result(w, 1, << >>)
                    ELSE IF info = NoMode THEN Result(w, 1, << >>)
                    ELSE LET after_a(a) ==
                                 Result(a, a.r, << >>)
                         IN  after_a(hdmi_init(w, info.mode))
            IN  after_info(find_mode_by_resolution(p.width, p.height, p.refresh))
    IN  after_p(parse_resolution(res_arg))

main_fb_set(w, geom_arg) ==
    LET after_p(p) ==
            IF p.r # 0 THEN Result(w, 1, << >>)
            ELSE LET after_a(a) ==
                         Result(a, a.r, <<p.depth>>)
                 IN  after_a(fb_configure(w, p.width, p.height, p.depth))
    IN  after_p(parse_resolution_depth(geom_arg))

main_scale(w, fb_arg, scn_arg, depth_arg) ==
    LET after_f(f) ==
            LET after_s(s) ==
                    LET after_depth(depth) ==
                            IF f.r # 0 \/ s.r # 0 THEN Result(w, 1, << >>)
                            ELSE IF ~ValidDepth(depth) THEN Result(w, 1, <<depth>>)
                            ELSE LET after_a(a) ==
                                         Result(a, a.r, <<depth>>)
                                 IN  after_a(setup_fb_with_scaling(w, 0, f.width, f.height,
                                                                   s.width, s.height, depth))
                    IN  after_depth(AToI(depth_arg))
            IN  after_s(parse_resolution(scn_arg))
    IN  after_f(parse_resolution(fb_arg))

\* main_autoscale that sets the framebuffer up even when it matches the screen
main_autoscale_always(w, has_depth, depth_arg) ==
    LET after_a(a) ==
            LET vinfo == a.out
                after_b(b) ==
                    LET scn == b.out
                        after_depth(depth) ==
                            IF a.r < 0 THEN Result(a, 1, << >>)
                            ELSE IF b.r < 0 THEN Result(b, 1, << >>)
                            ELSE IF has_depth /\ ~ValidDepth(depth) THEN Result(b, 1, <<depth>>)
                            ELSE IF b.g_de_version = DE_VERSION_2 THEN Result(b, 0, <<depth>>)
                            ELSE LET after_c(c) ==
                                         Result(c, c.r, <<depth>>)
                                 IN  after_c(setup_fb_with_scaling(b, 0, vinfo.xres, vinfo.yres,
                                                                   scn.width, scn.height, depth))
                    IN  after_depth(IF has_depth THEN AToI(depth_arg) ELSE vinfo.bits_per_pixel)
            IN  after_b(get_screen_size(a))
    IN  after_a(get_fb_info(w, TRUE, FALSE))

\* depth_arg is the argument after the command word, when there is one
main_autoscale(w, has_depth, depth_arg) ==
    LET after_a(a) ==
            LET vinfo == a.out
                after_b(b) ==
                    LET scn == b.out
                        after_depth(depth) ==
                            IF a.r < 0 THEN Result(a, 1, << >>)
                            ELSE IF b.r < 0 THEN Result(b, 1, << >>)
                            ELSE IF has_depth /\ ~ValidDepth(depth) THEN Result(b, 1, <<depth>>)
                            ELSE IF vinfo.xres = scn.width /\ vinfo.yres = scn.height
                            THEN Result(b, 0, <<depth>>)
                            ELSE IF b.g_de_version = DE_VERSION_2 THEN Result(b, 0, <<depth>>)
                            ELSE LET after_c(c) ==
                                         Result(c, c.r, <<depth>>)
                                 IN  after_c(setup_fb_with_scaling(b, 0, vinfo.xres, vinfo.yres,
                                                                   scn.width, scn.height, depth))
                    IN  after_depth(IF has_depth THEN AToI(depth_arg) ELSE vinfo.bits_per_pixel)
            IN  after_b(get_screen_size(a))
    IN  after_a(get_fb_info(w, TRUE, FALSE))

\* main_noscale that hands the screen height over as the framebuffer width
main_noscale_swapped(w, has_depth, depth_arg) ==
    LET after_a(a) ==
            LET scn == a.out
                after_b(b) ==
                    LET after_depth(depth) ==
                            IF a.r < 0 THEN Result(a, 1, << >>)
                            ELSE IF has_depth /\ ~ValidDepth(depth) THEN Result(a, 1, <<depth>>)
                            ELSE LET after_c(c) ==
                                         Result(c, c.r, <<depth>>)
                                 IN  after_c(setup_fb_with_scaling(b, 0, scn.height, scn.width,
                                                                   scn.width, scn.height, depth))
                    IN  after_depth(IF has_depth THEN AToI(depth_arg)
                                    ELSE IF b.r = 0 THEN b.out.bits_per_pixel ELSE 32)
            IN  after_b(IF has_depth THEN a ELSE get_fb_info(a, TRUE, FALSE))
    IN  after_a(get_screen_size(w))

main_noscale(w, has_depth, depth_arg) ==
    LET after_a(a) ==
            LET scn == a.out
                after_b(b) ==
                    LET after_depth(depth) ==
                            IF a.r < 0 THEN Result(a, 1, << >>)
                            ELSE IF has_depth /\ ~ValidDepth(depth) THEN Result(a, 1, <<depth>>)
                            ELSE LET after_c(c) ==
                                         Result(c, c.r, <<depth>>)
                                 IN  after_c(setup_fb_with_scaling(b, 0, scn.width, scn.height,
                                                                   scn.width, scn.height, depth))
                    IN  after_depth(IF has_depth THEN AToI(depth_arg)
                                    ELSE IF b.r = 0 THEN b.out.bits_per_pixel ELSE 32)
            IN  after_b(IF has_depth THEN a ELSE get_fb_info(a, TRUE, FALSE))
    IN  after_a(get_screen_size(w))

-----------------------------------------------------------------------------
(* The environments and command lines the model runs the program in *)

\* the command lines given to the program; argv[0] is the program name
CmdLines ==
    {<<<<"p">>>>,
     <<<<"p">>, <<"i","n","f","o">>>>,
     <<<<"p">>, <<"-","v">>, <<"i","n","f","o">>>>,
     <<<<"p">>, <<"-","s">>, <<"1">>, <<"i","n","f","o">>>>,
     <<<<"p">>, <<"-","s">>, <<"2">>, <<"i","n","f","o">>>>,
     <<<<"p">>, <<"-","x">>, <<"i","n","f","o">>>>,
     <<<<"p">>, <<"-","h">>>>,
     <<<<"p">>, <<"-","f">>>>,
     <<<<"p">>, <<"d","e","b","u","g">>>>,
     <<<<"p">>, <<"h","d","m","i">>, <<"o","n">>>>,
     <<<<"p">>, <<"-","f">>, <<"h","d","m","i">>, <<"o","n">>>>,
     <<<<"p">>, <<"h","d","m","i">>, <<"o","f","f">>>>,
     <<<<"p">>, <<"h","d","m","i">>, <<"m","o","d","e">>, <<"5">>>>,
     <<<<"p">>, <<"h","d","m","i">>, <<"m","o","d","e">>, <<"7","2","0","P","6","0">>>>,
     <<<<"p">>, <<"h","d","m","i">>, <<"m","o","d","e">>, <<"1","2">>>>,
     <<<<"p">>, <<"h","d","m","i">>, <<"m","o","d","e">>, <<"9","9">>>>,
     <<<<"p">>, <<"h","d","m","i">>, <<"m","o","d","e">>, <<"b","o","g","u","s">>>>,
     <<<<"p">>, <<"-","f">>, <<"h","d","m","i">>, <<"m","o","d","e">>, <<"4">>>>,
     <<<<"p">>, <<"h","d","m","i">>, <<"i","n","i","t">>, <<"1","2","8","0","x","7","2","0","@","6","0">>>>,
     <<<<"p">>, <<"h","d","m","i">>, <<"i","n","i","t">>, <<"1","9","2","0","x","1","0","8","0">>>>,
     <<<<"p">>, <<"h","d","m","i">>, <<"i","n","i","t">>, <<"1","2","3","x","4","5","6">>>>,
     <<<<"p">>, <<"h","d","m","i">>, <<"i","n","i","t">>, <<"j","u","n","k">>>>,
     <<<<"p">>, <<"h","d","m","i">>>>,
     <<<<"p">>, <<"h","d","m","i">>, <<"b","o","g","u","s">>>>,
     <<<<"p">>, <<"f","b">>, <<"s","e","t">>, <<"6","4","0","x","4","8","0","x","8">>>>,
     <<<<"p">>, <<"f","b">>, <<"s","e","t">>, <<"1","2","8","0","x","7","2","0","x","3","2">>>>,
     <<<<"p">>, <<"f","b">>, <<"s","e","t">>, <<"6","4","0","x","4","8","0">>>>,
     <<<<"p">>, <<"f","b">>, <<"g","e","t">>, <<"x">>>>,
     <<<<"p">>, <<"s","c","a","l","e">>, <<"6","4","0","x","4","8","0">>, <<"1","2","8","0","x","7","2","0">>, <<"3","2">>>>,
     <<<<"p">>, <<"s","c","a","l","e">>, <<"1","2","8","0","x","7","2","0">>, <<"1","2","8","0","x","7","2","0">>, <<"1","6">>>>,
     <<<<"p">>, <<"s","c","a","l","e">>, <<"6","4","0","x","4","8","0">>, <<"1","2","8","0","x","7","2","0">>, <<"8">>>>,
     <<<<"p">>, <<"s","c","a","l","e">>, <<"j","u","n","k">>, <<"1","2","8","0","x","7","2","0">>, <<"3","2">>>>,
     <<<<"p">>, <<"s","c","a","l","e">>, <<"0","x","0">>, <<"1","2","8","0","x","7","2","0">>, <<"3","2">>>>,
     <<<<"p">>, <<"a","u","t","o","s","c","a","l","e">>>>,
     <<<<"p">>, <<"a","u","t","o","s","c","a","l","e">>, <<"1","6">>>>,
     <<<<"p">>, <<"a","u","t","o","s","c","a","l","e">>, <<"8">>>>,
     <<<<"p">>, <<"n","o","s","c","a","l","e">>>>,
     <<<<"p">>, <<"n","o","s","c","a","l","e">>, <<"2","4">>>>,
     <<<<"p">>, <<"n","o","s","c","a","l","e">>, <<"8">>>>,
     <<<<"p">>, <<"-","s">>, <<"1">>, <<"n","o","s","c","a","l","e">>>>,
     <<<<"p">>, <<"b","o","g","u","s">>>>}

\* lines /proc/cpuinfo is made of
CpuinfoLines ==
    {<<"C","P","U"," ","A","R","M","v","7">>,
     <<"H","a","r","d","w","a","r","e"," ","s","u","n","7","i">>,
     <<"H","a","r","d","w","a","r","e"," ","s","u","n","8","i">>,
     <<"H","a","r","d","w","a","r","e"," ","x">>,
     <<"H","a","r","d","w","a","r","e"," ","H","3"," ","A","1","0">>,
     <<"m","o","d","e","l"," ","A","2","0">>}

NoFile == [exists |-> FALSE, lines |-> << >>]
File(lines) == [exists |-> TRUE, lines |-> lines]

Board(gen, file) == [hw |-> gen, cpuinfo |-> file]

\* boards whose /proc/cpuinfo names the SoC rightly or not at all
BoardA20 == Board(DE_VERSION_1, File(<<<<"H","a","r","d","w","a","r","e"," ","s","u","n","7","i">>>>))
BoardH3 == Board(DE_VERSION_2, File(<<<<"C","P","U"," ","A","R","M","v","7">>, <<"H","a","r","d","w","a","r","e"," ","s","u","n","8","i">>>>))
BoardA20NoId == Board(DE_VERSION_1, NoFile)
BoardH3NoId == Board(DE_VERSION_2, File(<<<<"H","a","r","d","w","a","r","e"," ","x">>>>))
BoardOther == Board(DE_VERSION_UNKNOWN, NoFile)
Boards == {BoardA20, BoardH3, BoardA20NoId, BoardH3NoId, BoardOther}

\* the hot-plug switch state file: absent, or holding "1"
HdmiStates ==
    {[exists |-> FALSE, text |-> << >>], [exists |-> TRUE, text |-> <<"1">>]}

Screen(type, mode, w, h) == [type |-> type, mode |-> mode, scn_w |-> w, scn_h |-> h]

\* screen 0 shows 720p60 or is off with no mode set; screen 1 is not configured
DriverOn ==
    [scr \in {0, 1} |->
        IF scr = 0 THEN Screen(DISP_OUTPUT_TYPE_HDMI, DISP_TV_MOD_720P_60HZ, 1280, 720)
        ELSE Screen(DISP_OUTPUT_TYPE_NONE, 0, 0, 0)]
DriverOff ==
    [scr \in {0, 1} |->
        IF scr = 0 THEN Screen(DISP_OUTPUT_TYPE_NONE, 0, 1280, 720)
        ELSE Screen(DISP_OUTPUT_TYPE_NONE, 0, 0, 0)]
DriverStates == {DriverOn, DriverOff}

Fb(w, h, vh, depth) ==
    [xres |-> w, yres |-> h, xres_virtual |-> w, yres_virtual |-> vh,
     bits_per_pixel |-> depth, rgba |-> ColorFormat(depth, <<0, 8, 0, 8, 0, 8, 0, 0>>)]

\* the framebuffer matches the screen, or is a small palette framebuffer
FbStates == {Fb(1280, 720, 720, 32), Fb(640, 480, 480, 8)}

\* outcomes of the next n system calls
Outcomes(n) == [1..n -> {"ok", "err"}]

\* show_info issues up to 10 calls and one support query per catalog entry;
\* at most one of them fails
InfoOutcomes ==
    {[i \in 1..(10 + Len(mode_table)) |-> IF i = k THEN "err" ELSE "ok"] :
        k \in 0..(10 + Len(mode_table))}

Sink == {0, 1}

NoOp == [op |-> "none", args |-> << >>, force |-> 0, from |-> 0, r |-> 0]
Op(op, args, force, from, r) ==
    [op |-> op, args |-> args, force |-> force, from |-> from, r |-> r]

-----------------------------------------------------------------------------
(* One process run: main() *)

Init ==
    /\ \E b \in Boards : hw = b.hw /\ cpuinfo = b.cpuinfo
    /\ hdmi_state \in HdmiStates
    /\ drv \in DriverStates
    /\ fbdev \in FbStates
    /\ g_de_version = DE_VERSION_UNKNOWN
    /\ g_disp_fd = 0 - 1
    /\ g_fb_fd = 0 - 1
    /\ g_screen = 0
    /\ g_force = 0
    /\ pc = "shell"
    /\ argv = << >>
    /\ arg_start = 1
    /\ ret = 0
    /\ exit_code = 0 - 1
    /\ calls = << >>
    /\ fdtab = << >>
    /\ ndetect = 0
    /\ last = NoOp
    /\ det = [results |-> << >>, drv0 |-> drv, fb0 |-> fbdev]
    /\ printed = << >>
    /\ runs = << >>
    /\ query = NoQuery
    /\ layout = NoLayout
    /\ build = DocumentedBuild

\* what a handler leaves behind in the process and the devices
Commit(w) ==
    /\ g_de_version' = w.g_de_version
    /\ g_disp_fd' = w.g_disp_fd
    /\ g_fb_fd' = w.g_fb_fd
    /\ g_screen' = w.g_screen
    /\ g_force' = w.g_force
    /\ drv' = w.drv
    /\ fbdev' = w.fbdev
    /\ calls' = w.calls
    /\ fdtab' = w.fdtab
    /\ ndetect' = w.ndetect
    /\ printed' = w.printed
    /\ UNCHANGED <<cpuinfo, hdmi_state, hw, runs, query, layout, build>>

\* main() up to and including disp_open(); out is [exit, arg_start]
main_start(w, av) ==
    IF Argc(av) < 2 THEN Result(w, 1, [exit |-> TRUE, arg_start |-> 1])
    ELSE LET after_p(p) ==
                 LET w1 == [w EXCEPT !.g_force = p.g_force, !.g_screen = p.g_screen]
                     after_a(a) ==
                         IF p.exit
                         THEN Result(w1, p.code, [exit |-> TRUE, arg_start |-> p.arg_start])
                         ELSE IF p.arg_start >= Argc(av)
                         THEN Result(w1, 1, [exit |-> TRUE, arg_start |-> p.arg_start])
                         ELSE IF a.r < 0
                         THEN Result(a, 1, [exit |-> TRUE, arg_start |-> p.arg_start])
                         ELSE Result(a, 0, [exit |-> FALSE, arg_start |-> p.arg_start])
                 IN  after_a(disp_open(w1))
         IN  after_p(ParseOptions(av, 1, w.g_force, w.g_screen))

\* control after main_start: at the command chain, or out of the process
Started(av, w) ==
    /\ Commit(w)
    /\ argv' = av
    /\ arg_start' = w.out.arg_start
    /\ pc' = IF w.out.exit THEN "exited" ELSE "opened"
    /\ exit_code' = IF w.out.exit THEN w.r ELSE exit_code
    /\ last' = Op("start", << >>, w.g_force, 0, w.r)
    /\ UNCHANGED <<ret, det>>

\* a run of main() on one of the command lines cmds
Start(cmds) ==
    /\ pc = "shell"
    /\ \E av \in cmds, o \in Outcomes(3), sink \in Sink :
        Started(av, main_start(World(o, sink), av))

MainStart == Start(CmdLines)

\* the end of a command branch: control is at done:
AtDone(op, w) ==
    /\ Commit(w)
    /\ ret' = w.r
    /\ last' = Op(op, w.out, g_force, Len(calls), w.r)
    /\ pc' = "done"
    /\ UNCHANGED <<argv, arg_start, exit_code, det>>

MainInfo ==
    /\ pc = "opened" /\ Branch(argv, arg_start) = "info"
    /\ \E o \in InfoOutcomes, sink \in Sink :
        AtDone("info", Result(show_info(World(o, sink)), ret, << >>))

MainDebug ==
    /\ pc = "opened" /\ Branch(argv, arg_start) = "debug"
    /\ AtDone("debug", Result(show_debug_info(World(<< >>, 0)), ret, << >>))

MainHdmiOn ==
    /\ pc = "opened" /\ Branch(argv, arg_start) = "hdmi on"
    /\ \E o \in Outcomes(5), sink \in Sink :
        AtDone("hdmi on", main_hdmi_on(World(o, sink)))

MainHdmiOff ==
    /\ pc = "opened" /\ Branch(argv, arg_start) = "hdmi off"
    /\ \E o \in Outcomes(1), sink \in Sink :
        AtDone("hdmi off", main_hdmi_off(World(o, sink)))

MainHdmiMode ==
    /\ pc = "opened" /\ Branch(argv, arg_start) = "hdmi mode"
    /\ \E o \in Outcomes(4), sink \in Sink :
        AtDone("hdmi mode", main_hdmi_mode(World(o, sink), Arg(argv, arg_start + 2)))

MainHdmiInit ==
    /\ pc = "opened" /\ Branch(argv, arg_start) = "hdmi init"
    /\ \E o \in Outcomes(4), sink \in Sink :
        AtDone("hdmi init", main_hdmi_init(World(o, sink), Arg(argv, arg_start + 2)))

MainFbSet ==
    /\ pc = "opened" /\ Branch(argv, arg_start) = "fb set"
    /\ \E o \in Outcomes(4), sink \in Sink :
        AtDone("fb set", main_fb_set(World(o, sink), Arg(argv, arg_start + 2)))

MainScale ==
    /\ pc = "opened" /\ Branch(argv, arg_start) = "scale"
    /\ \E o \in Outcomes(3), sink \in Sink :
        AtDone("scale", main_scale(World(o, sink), Arg(argv, arg_start + 1),
                                   Arg(argv, arg_start + 2), Arg(argv, arg_start + 3)))

\* the optional depth argument of autoscale and noscale
HasDepthArg == arg_start + 1 < Argc(argv)
DepthArg == IF HasDepthArg THEN Arg(argv, arg_start + 1) ELSE << >>

MainAutoscale ==
    /\ pc = "opened" /\ Branch(argv, arg_start) = "autoscale"
    /\ \E o \in Outcomes(6), sink \in Sink :
        AtDone("autoscale", main_autoscale(World(o, sink), HasDepthArg, DepthArg))

MainNoscale ==
    /\ pc = "opened" /\ Branch(argv, arg_start) = "noscale"
    /\ \E o \in Outcomes(7), sink \in Sink :
        AtDone("noscale", main_noscale(World(o, sink), HasDepthArg, DepthArg))

\* print_usage and ret = 1: the else branches of the command chain
MainUsage ==
    /\ pc = "opened" /\ Branch(argv, arg_start) = "usage"
    /\ AtDone("usage", Result(World(<< >>, 0), 1, << >>))

\* done: close the framebuffer descriptor if main holds one, disp_close, return ret
MainDone ==
    /\ pc = "done"
    /\ LET after_w(w) ==
               LET a == IF w.g_fb_fd >= 0 THEN sys_close(w, w.g_fb_fd) ELSE w
               IN  Commit(disp_close(a))
       IN  after_w(World(<< >>, 0))
    /\ pc' = "exited"
    /\ exit_code' = ret % EXIT_MASK
    /\ UNCHANGED <<argv, arg_start, ret, last, det>>

Next ==
    \/ MainStart
    \/ MainInfo
    \/ MainDebug
    \/ MainHdmiOn
    \/ MainHdmiOff
    \/ MainHdmiMode
    \/ MainHdmiInit
    \/ MainFbSet
    \/ MainScale
    \/ MainAutoscale
    \/ MainNoscale
    \/ MainUsage
    \/ MainDone

Spec == Init /\ [][Next]_vars

-----------------------------------------------------------------------------
(* The functions of the program applied one after the other in one process *)

\* the world of one function call: the call log starts empty
ApiWorld(o, sink) == [World(o, sink) EXCEPT !.calls = << >>]

ApiModes == {DISP_TV_MOD_720P_50HZ, DISP_TV_MOD_3840_2160P_30HZ}
ApiSizes == {<<640, 480>>, <<1280, 720>>, <<1280, 480>>}
ApiDepths == {16, 32}

\* one board of each kind: generation 1, generation 2, a driver of neither
ApiBoards == {BoardA20, BoardH3, BoardOther}

InitApi ==
    /\ \E b \in ApiBoards : hw = b.hw /\ cpuinfo = b.cpuinfo
    /\ hdmi_state = [exists |-> FALSE, text |-> << >>]
    /\ drv = DriverOn
    /\ fbdev = Fb(1280, 720, 720, 32)
    /\ g_de_version = DE_VERSION_UNKNOWN
    /\ g_disp_fd = 0 - 1
    /\ g_fb_fd = 0 - 1
    /\ g_screen = 0
    /\ g_force \in {0, 1}
    /\ pc = "api"
    /\ argv = << >>
    /\ arg_start = 1
    /\ ret = 0
    /\ exit_code = 0 - 1
    /\ calls = << >>
    /\ fdtab = << >>
    /\ ndetect = 0
    /\ last = NoOp
    /\ det = [results |-> << >>, drv0 |-> drv, fb0 |-> fbdev]
    /\ printed = << >>
    /\ runs = << >>
    /\ query = NoQuery
    /\ layout = NoLayout
    /\ build = DocumentedBuild

Returned(op, args, w) ==
    /\ Commit(w)
    /\ last' = Op(op, args, g_force, 0, w.r)
    /\ UNCHANGED <<pc, argv, arg_start, ret, exit_code, det>>

ApiDispOpen ==
    /\ pc = "api"
    /\ \E o \in Outcomes(3), sink \in Sink :
        Returned("disp_open", <<g_disp_fd>>, disp_open(ApiWorld(o, sink)))

ApiHdmiInit ==
    /\ pc = "api"
    /\ \E mode \in ApiModes, o \in Outcomes(4), sink \in Sink :
        Returned("hdmi_init", <<mode>>, hdmi_init(ApiWorld(o, sink), mode))

ApiHdmiOn ==
    /\ pc = "api"
    /\ \E o \in Outcomes(4) :
        Returned("hdmi_on", << >>, hdmi_on(ApiWorld(o, 1)))

ApiHdmiOff ==
    /\ pc = "api"
    /\ \E o \in Outcomes(1) :
        Returned("hdmi_off", << >>, hdmi_off(ApiWorld(o, 1)))

ApiSetupFb ==
    /\ pc = "api"
    /\ \E fb \in ApiSizes, scn \in ApiSizes, depth \in ApiDepths, o \in Outcomes(3) :
        Returned("setup_fb_with_scaling", <<fb[1], fb[2], scn[1], scn[2], depth>>,
                 setup_fb_with_scaling(ApiWorld(o, 1), 0, fb[1], fb[2],
                                       scn[1], scn[2], depth))

NextApi ==
    \/ ApiDispOpen
    \/ ApiHdmiInit
    \/ ApiHdmiOn
    \/ ApiHdmiOff
    \/ ApiSetupFb

SpecApi == InitApi /\ [][NextApi]_vars

-----------------------------------------------------------------------------
(* detect_de_version applied repeatedly to one system *)

\* /proc/cpuinfo: absent, or up to MaxCpuinfoLines lines
CpuinfoFiles ==
    {NoFile} \cup {File(l) : l \in UNION {[1..n -> CpuinfoLines] : n \in 1..MaxCpuinfoLines}}

\* the process has /dev/disp open as descriptor 3
InitDetect ==
    /\ hw \in {DE_VERSION_UNKNOWN, DE_VERSION_1, DE_VERSION_2}
    /\ cpuinfo \in CpuinfoFiles
    /\ hdmi_state = [exists |-> FALSE, text |-> << >>]
    /\ drv \in DriverStates
    /\ fbdev = Fb(1280, 720, 720, 32)
    /\ g_de_version = DE_VERSION_UNKNOWN
    /\ g_disp_fd = 3
    /\ g_fb_fd = 0 - 1
    /\ g_screen = 0
    /\ g_force = 0
    /\ pc = "detect"
    /\ argv = << >>
    /\ arg_start = 1
    /\ ret = 0
    /\ exit_code = 0 - 1
    /\ calls = << >>
    /\ fdtab = <<[dev |-> "disp", open |-> TRUE]>>
    /\ ndetect = 0
    /\ last = NoOp
    /\ det = [results |-> << >>, drv0 |-> drv, fb0 |-> fbdev]
    /\ printed = << >>
    /\ runs = << >>
    /\ query = NoQuery
    /\ layout = NoLayout
    /\ build = DocumentedBuild

DetectCall ==
    /\ pc = "detect"
    /\ Len(det.results) < MaxDetectCalls
    /\ \E o \in Outcomes(2), sink \in Sink :
        LET after_w(w) ==
                /\ Commit(w)
                /\ last' = Op("detect_de_version", <<g_disp_fd>>, g_force, 0, w.r)
                /\ det' = [det EXCEPT !.results = Append(@, w.r)]
                /\ UNCHANGED <<pc, argv, arg_start, ret, exit_code>>
        IN  after_w(detect_de_version(ApiWorld(o, sink), g_disp_fd))

NextDetect == DetectCall

SpecDetect == InitDetect /\ [][NextDetect]_vars

-----------------------------------------------------------------------------
(* detect_soc_from_cpuinfo applied to every hardware-identity text *)

IdentityProbe ==
    /\ pc = "detect"
    /\ Returned("detect_soc_from_cpuinfo", << >>, detect_soc_from_cpuinfo(ApiWorld(<< >>, 0)))

NextIdentity == IdentityProbe

SpecIdentity == InitDetect /\ [][NextIdentity]_vars

-----------------------------------------------------------------------------
(* Consecutive runs of the program on one system *)

SessionCmdLines ==
    {<<<<"p">>, <<"n","o","s","c","a","l","e">>>>,
     <<<<"p">>, <<"-","s">>, <<"1">>, <<"n","o","s","c","a","l","e">>>>,
     <<<<"p">>, <<"i","n","f","o">>>>}

SessionStart == Start(SessionCmdLines)

\* the shell runs the program again: a new process, the devices as they are
Exec ==
    /\ pc = "exited"
    /\ Len(runs) + 1 < MaxProcessRuns
    /\ runs' = Append(runs, [op |-> last.op, r |-> exit_code, g_screen |-> g_screen])
    /\ g_de_version' = DE_VERSION_UNKNOWN
    /\ g_disp_fd' = 0 - 1
    /\ g_fb_fd' = 0 - 1
    /\ g_screen' = 0
    /\ g_force' = 0
    /\ pc' = "shell"
    /\ argv' = << >>
    /\ arg_start' = 1
    /\ ret' = 0
    /\ exit_code' = 0 - 1
    /\ calls' = << >>
    /\ fdtab' = << >>
    /\ ndetect' = 0
    /\ last' = NoOp
    /\ printed' = << >>
    /\ UNCHANGED <<cpuinfo, hdmi_state, hw, drv, fbdev, det, query, layout, build>>

NextSession ==
    \/ SessionStart
    \/ MainNoscale
    \/ MainInfo
    \/ MainDone
    \/ Exec

\* a generation-1 or a generation-2 board whose framebuffer may differ from
\* the screen
InitSession ==
    /\ Init
    /\ \E b \in {BoardA20, BoardH3} : hw = b.hw /\ cpuinfo = b.cpuinfo
    /\ hdmi_state = [exists |-> FALSE, text |-> << >>]
    /\ drv = DriverOn

SpecSession == InitSession /\ [][NextSession]_vars

-----------------------------------------------------------------------------
(* The mode catalog and its lookups *)

\* toupper()
ToUpper(c) ==
    IF \E i \in 1..26 : LowerChars[i] = c
    THEN UpperChars[CHOOSE i \in 1..26 : LowerChars[i] = c]
    ELSE c

StrUpper(str) == [i \in 1..Len(str) |-> ToUpper(str[i])]

\* the names looked up: every catalog name as written and in capitals, and
\* names the catalog does not hold
LookupNames ==
    {mode_table[i].name : i \in 1..Len(mode_table)}
    \cup {StrUpper(mode_table[i].name) : i \in 1..Len(mode_table)}
    \cup {<< >>, <<"7","2","0","p">>, <<"7","2","0","p","6","0","x">>, <<"b","o","g","u","s">>}

\* the identifiers looked up: those of disp_tv_mode, DISP_TV_MODE_NUM and -1
LookupIds == (0 - 1)..DISP_TV_MODE_NUM

LookupWidths == {0, 640, 720, 1280, 1920, 3840}
LookupHeights == {0, 480, 576, 720, 1080, 2160}
LookupRates == {0, 24, 50, 60}

InitCatalog ==
    /\ Init
    /\ hw = BoardA20.hw /\ cpuinfo = BoardA20.cpuinfo
    /\ hdmi_state = [exists |-> FALSE, text |-> << >>]
    /\ drv = DriverOn
    /\ fbdev = Fb(1280, 720, 720, 32)

FindModeByName ==
    /\ \E name \in LookupNames :
          query' = Query("name", name, find_mode_by_name(name), NoQuery)
    /\ UNCHANGED <<cpuinfo, hdmi_state, hw, drv, fbdev, g_de_version, g_disp_fd, g_fb_fd,
                   g_screen, g_force, pc, argv, arg_start, ret, exit_code, calls, fdtab,
                   ndetect, last, det, printed, runs, layout, build>>

FindModeByResolution ==
    /\ \E w \in LookupWidths, h \in LookupHeights, refresh \in LookupRates :
          query' = Query("resolution", <<w, h, refresh>>,
                         find_mode_by_resolution(w, h, refresh), NoQuery)
    /\ UNCHANGED <<cpuinfo, hdmi_state, hw, drv, fbdev, g_de_version, g_disp_fd, g_fb_fd,
                   g_screen, g_force, pc, argv, arg_start, ret, exit_code, calls, fdtab,
                   ndetect, last, det, printed, runs, layout, build>>

\* get_mode_info on any identifier, or on the identifier of the entry the
\* lookup before returned
GetModeInfo ==
    /\ \/ \E mode \in LookupIds :
             query' = Query("id", <<mode>>, get_mode_info(mode), NoQuery)
       \/ /\ query.by \in {"name", "resolution"}
          /\ query.entry # NoMode
          /\ query' = Query("id", <<query.entry.mode>>, get_mode_info(query.entry.mode),
                            [by |-> query.by, key |-> query.key, entry |-> query.entry])
    /\ UNCHANGED <<cpuinfo, hdmi_state, hw, drv, fbdev, g_de_version, g_disp_fd, g_fb_fd,
                   g_screen, g_force, pc, argv, arg_start, ret, exit_code, calls, fdtab,
                   ndetect, last, det, printed, runs, layout, build>>

NextCatalog ==
    \/ FindModeByName
    \/ FindModeByResolution
    \/ GetModeInfo

SpecCatalog == InitCatalog /\ [][NextCatalog]_vars

-----------------------------------------------------------------------------
(* Structure layout, as arm-linux-gnueabihf-gcc lays the structures out *)

Type(size, align) == [size |-> size, align |-> align]

\* the scalar types of the structure fields
Scalars ==
    "__bool" :> Type(1, 1) @@ "__u8" :> Type(1, 1) @@ "__u16" :> Type(2, 2)
    @@ "__u32" :> Type(4, 4) @@ "__s32" :> Type(4, 4) @@ "uint32_t" :> Type(4, 4)
    @@ "unsigned char" :> Type(1, 1) @@ "unsigned int" :> Type(4, 4)
    @@ "bool" :> Type(1, 1) @@ "long long" :> Type(8, 8)
    @@ "unsigned long long" :> Type(8, 8) @@ "const char *" :> Type(4, 4)

\* the enumerated types of the structure fields; an enum is an int
Enums ==
    {"disp_tv_mode", "de1_pixel_fmt", "de1_pixel_seq", "de1_pixel_mod", "de1_cs_mode",
     "de1_3d_src_mode", "de1_3d_out_mode", "de1_layer_work_mode", "de1_fb_mode",
     "de2_pixel_format", "de2_color_space", "de2_3d_out_mode", "de2_layer_mode",
     "de2_scan_flags", "de2_buffer_flags"}

\* a member: type name[count]
Field(name, type, count) == [name |-> name, type |-> type, count |-> count]

\* the structures and the anonymous union, member by member
Structs ==
    "disp_rect" :> << Field("x", "__s32", 1), Field("y", "__s32", 1),
                      Field("width", "__u32", 1), Field("height", "__u32", 1) >>
    @@ "disp_rectsz" :> << Field("width", "__u32", 1), Field("height", "__u32", 1) >>
    @@ "disp_color" :> << Field("alpha", "__u8", 1), Field("red", "__u8", 1),
                          Field("green", "__u8", 1), Field("blue", "__u8", 1) >>
    @@ "de1_fb_t" :>
          << Field("addr", "__u32", 3), Field("size", "disp_rectsz", 1),
             Field("format", "de1_pixel_fmt", 1), Field("seq", "de1_pixel_seq", 1),
             Field("mode", "de1_pixel_mod", 1), Field("br_swap", "__bool", 1),
             Field("cs_mode", "de1_cs_mode", 1), Field("b_trd_src", "__bool", 1),
             Field("trd_mode", "de1_3d_src_mode", 1), Field("trd_right_addr", "__u32", 3),
             Field("pre_multiply", "__bool", 1) >>
    @@ "de1_layer_info_t" :>
          << Field("mode", "de1_layer_work_mode", 1), Field("b_from_screen", "__bool", 1),
             Field("pipe", "__u8", 1), Field("prio", "__u8", 1),
             Field("alpha_en", "__bool", 1), Field("alpha_val", "__u16", 1),
             Field("ck_enable", "__bool", 1), Field("src_win", "disp_rect", 1),
             Field("scn_win", "disp_rect", 1), Field("fb", "de1_fb_t", 1),
             Field("b_trd_out", "__bool", 1), Field("out_trd_mode", "de1_3d_out_mode", 1) >>
    @@ "de1_fb_create_para_t" :>
          << Field("fb_mode", "de1_fb_mode", 1), Field("mode", "de1_layer_work_mode", 1),
             Field("buffer_num", "__u32", 1), Field("width", "__u32", 1),
             Field("height", "__u32", 1), Field("output_width", "__u32", 1),
             Field("output_height", "__u32", 1), Field("primary_screen_id", "__u32", 1),
             Field("aux_output_width", "__u32", 1), Field("aux_output_height", "__u32", 1),
             Field("line_length", "__u32", 1), Field("smem_len", "__u32", 1),
             Field("ch1_offset", "__u32", 1), Field("ch2_offset", "__u32", 1) >>
    @@ "de2_rect64" :> << Field("x", "long long", 1), Field("y", "long long", 1),
                          Field("width", "long long", 1), Field("height", "long long", 1) >>
    @@ "de2_fb_info" :>
          << Field("addr", "unsigned long long", 3), Field("size", "disp_rectsz", 3),
             Field("align", "unsigned int", 3), Field("format", "de2_pixel_format", 1),
             Field("color_space", "de2_color_space", 1),
             Field("trd_right_addr", "unsigned int", 3), Field("pre_multiply", "bool", 1),
             Field("crop", "de2_rect64", 1), Field("flags", "de2_buffer_flags", 1),
             Field("scan", "de2_scan_flags", 1) >>
    @@ "de2_layer_info.union" :>
          << Field("color", "unsigned int", 1), Field("fb", "de2_fb_info", 1) >>
    @@ "de2_layer_info" :>
          << Field("mode", "de2_layer_mode", 1), Field("zorder", "unsigned char", 1),
             Field("alpha_mode", "unsigned char", 1), Field("alpha_value", "unsigned char", 1),
             Field("screen_win", "disp_rect", 1), Field("b_trd_out", "bool", 1),
             Field("out_trd_mode", "de2_3d_out_mode", 1),
             Field("", "de2_layer_info.union", 1), Field("id", "unsigned int", 1) >>
    @@ "de2_layer_config" :>
          << Field("info", "de2_layer_info", 1), Field("enable", "bool", 1),
             Field("channel", "unsigned int", 1), Field("layer_id", "unsigned int", 1) >>
    @@ "de2_output" :> << Field("type", "unsigned int", 1), Field("mode", "unsigned int", 1) >>
    @@ "de2_fb_create_info" :>
          << Field("fb_mode", "unsigned int", 1), Field("mode", "de2_layer_mode", 1),
             Field("buffer_num", "unsigned int", 1), Field("width", "unsigned int", 1),
             Field("height", "unsigned int", 1), Field("output_width", "unsigned int", 1),
             Field("output_height", "unsigned int", 1) >>
    @@ "mode_info_t" :>
          << Field("mode", "disp_tv_mode", 1), Field("name", "const char *", 1),
             Field("width", "uint32_t", 1), Field("height", "uint32_t", 1),
             Field("refresh", "uint32_t", 1) >>

Unions == {"de2_layer_info.union"}

Max(a, b) == IF a >= b THEN a ELSE b

\* n rounded up to a multiple of align
RoundUp(n, align) == ((n + align - 1) \div align) * align

RECURSIVE AlignOf(_, _)
\* _Alignof(type): of an aggregate, the strictest alignment of its members
AlignOf(b, type) ==
    IF b.packed THEN 1
    ELSE IF type \in DOMAIN Scalars THEN Scalars[type].align
    ELSE IF type \in Enums THEN b.enum_size
    ELSE LET aligns == {AlignOf(b, Structs[type][i].type) : i \in 1..Len(Structs[type])}
         IN  CHOOSE x \in aligns : \A y \in aligns : y <= x

RECURSIVE SizeOf(_, _)
RECURSIVE EndOf(_, _, _)
\* where the first k members of the aggregate end
EndOf(b, type, k) ==
    IF k = 0 THEN 0
    ELSE LET after_f(f) ==
                 IF type \in Unions
                 THEN Max(EndOf(b, type, k - 1), SizeOf(b, f.type) * f.count)
                 ELSE RoundUp(EndOf(b, type, k - 1), AlignOf(b, f.type))
                      + SizeOf(b, f.type) * f.count
         IN  after_f(Structs[type][k])

\* sizeof(type): an aggregate ends on a multiple of its alignment
SizeOf(b, type) ==
    IF type \in DOMAIN Scalars THEN Scalars[type].size
    ELSE IF type \in Enums THEN b.enum_size
    ELSE RoundUp(EndOf(b, type, Len(Structs[type])), AlignOf(b, type))

\* offsetof(type, name)
OffsetIn(b, type, name) ==
    LET after_k(k) ==
            IF type \in Unions THEN 0
            ELSE RoundUp(EndOf(b, type, k - 1), AlignOf(b, Structs[type][k].type))
    IN  after_k(CHOOSE i \in 1..Len(Structs[type]) : Structs[type][i].name = name)

\* the layout of an aggregate in progress: members placed so far, their
\* offsets, where the last one ends, the alignment so far, and the size once
\* the last member is placed (-1 before)
Layout(type, placed, offsets, end, align, size) ==
    [type |-> type, placed |-> placed, offsets |-> offsets, end |-> end,
     align |-> align, size |-> size]

\* sizeof is asked of one of the structures
BeginLayout ==
    /\ layout = NoLayout
    /\ \E type \in DOMAIN Structs : layout' = Layout(type, 0, << >>, 0, 1, 0 - 1)
    /\ UNCHANGED <<cpuinfo, hdmi_state, hw, drv, fbdev, g_de_version, g_disp_fd, g_fb_fd,
                   g_screen, g_force, pc, argv, arg_start, ret, exit_code, calls, fdtab,
                   ndetect, last, det, printed, runs, query, build>>

\* #pragma pack(1): no padding between members
PlaceFieldPacked ==
    /\ layout.type \in DOMAIN Structs
    /\ layout.placed < Len(Structs[layout.type])
    /\ LET after_f(f, at) ==
               layout' = Layout(layout.type, layout.placed + 1, Append(layout.offsets, at),
                                Max(layout.end, at + SizeOf(build, f.type) * f.count),
                                1, 0 - 1)
       IN  after_f(Structs[layout.type][layout.placed + 1],
                   IF layout.type \in Unions THEN 0 ELSE layout.end)
    /\ UNCHANGED <<cpuinfo, hdmi_state, hw, drv, fbdev, g_de_version, g_disp_fd, g_fb_fd,
                   g_screen, g_force, pc, argv, arg_start, ret, exit_code, calls, fdtab,
                   ndetect, last, det, printed, runs, query, build>>

\* the next member goes to the first offset at or after the end of the one
\* before that its alignment divides; every member of a union goes to offset 0
PlaceField ==
    /\ layout.type \in DOMAIN Structs
    /\ layout.placed < Len(Structs[layout.type])
    /\ LET after_f(f, at) ==
               layout' = Layout(layout.type, layout.placed + 1, Append(layout.offsets, at),
                                Max(layout.end, at + SizeOf(build, f.type) * f.count),
                                Max(layout.align, AlignOf(build, f.type)), 0 - 1)
           member == Structs[layout.type][layout.placed + 1]
       IN  after_f(member, IF layout.type \in Unions THEN 0
                           ELSE RoundUp(layout.end, AlignOf(build, member.type)))
    /\ UNCHANGED <<cpuinfo, hdmi_state, hw, drv, fbdev, g_de_version, g_disp_fd, g_fb_fd,
                   g_screen, g_force, pc, argv, arg_start, ret, exit_code, calls, fdtab,
                   ndetect, last, det, printed, runs, query, build>>

\* sizeof: the end of the last member rounded up to the alignment
FinishLayout ==
    /\ layout.type \in DOMAIN Structs
    /\ layout.placed = Len(Structs[layout.type])
    /\ layout.size < 0
    /\ layout' = [layout EXCEPT !.size = RoundUp(layout.end, layout.align)]
    /\ UNCHANGED <<cpuinfo, hdmi_state, hw, drv, fbdev, g_de_version, g_disp_fd, g_fb_fd,
                   g_screen, g_force, pc, argv, arg_start, ret, exit_code, calls, fdtab,
                   ndetect, last, det, printed, runs, query, build>>

NextLayout ==
    \/ BeginLayout
    \/ PlaceField
    \/ FinishLayout

SpecLayout == InitCatalog /\ [][NextLayout]_vars

-----------------------------------------------------------------------------
(* a20_hdmi_fb: the generation-1 tool with the structure self-check *)

\* what check_structure_alignment compares in each build:
\* <<what, actual, expected>>
StructureChecks ==
    [b \in Builds |->
    << <<"sizeof(__disp_rect_t)", SizeOf(b, "disp_rect"), 16>>,
       <<"sizeof(__disp_rectsz_t)", SizeOf(b, "disp_rectsz"), 8>>,
       <<"sizeof(__disp_fb_t)", SizeOf(b, "de1_fb_t"), 64>>,
       <<"sizeof(__disp_layer_info_t)", SizeOf(b, "de1_layer_info_t"), 116>>,
       <<"sizeof(__disp_fb_create_para_t)", SizeOf(b, "de1_fb_create_para_t"), 56>>,
       <<"offsetof(__disp_layer_info_t, src_win)", OffsetIn(b, "de1_layer_info_t", "src_win"), 12>>,
       <<"offsetof(__disp_layer_info_t, scn_win)", OffsetIn(b, "de1_layer_info_t", "scn_win"), 28>>,
       <<"offsetof(__disp_layer_info_t, fb)", OffsetIn(b, "de1_layer_info_t", "fb"), 44>> >>]

Mismatch(check) == check[2] # check[3]

RECURSIVE Warn(_, _, _)
\* one WARNING line per comparison that fails, from the i-th on
Warn(w, checks, i) ==
    IF i > Len(checks) THEN w
    ELSE IF Mismatch(checks[i])
    THEN Warn(printf(w, "WARNING", checks[i][1], <<checks[i][2], checks[i][3]>>), checks, i + 1)
    ELSE Warn(w, checks, i + 1)

\* returns the number of comparisons that failed
check_structure_alignment(w, b) ==
    LET after_checks(checks) ==
            LET after_errors(errors) ==
                    IF errors > 0
                    THEN Return(printf(Warn(w, checks, 1),
                                       "STRUCTURE ALIGNMENT MISMATCH DETECTED", "", <<errors>>),
                                errors)
                    ELSE Return(w, 0)
            IN  after_errors(Cardinality({i \in 1..Len(checks) : Mismatch(checks[i])}))
    IN  after_checks(StructureChecks[b])

\* the check as the scaling commands run it: a mismatch is reported and the
\* command carries on
a20_self_check(w, b) ==
    LET after_c(c) ==
            IF c.r > 0 THEN printf(c, "Continuing anyway (may crash)...", "", << >>) ELSE c
    IN  after_c(check_structure_alignment(w, b))

a20_disp_open(w) ==
    IF w.g_disp_fd >= 0 THEN Return(w, 0)
    ELSE LET after_a(a) ==
                 IF a.r < 0 THEN Return([a EXCEPT !.g_disp_fd = a.r], 0 - 1)
                 ELSE Return([a EXCEPT !.g_disp_fd = a.r], 0)
         IN  after_a(sys_open(w, "disp"))

\* main() up to and including disp_open(); out is [exit, arg_start]
a20_main_start(w, av) ==
    IF Argc(av) < 2 THEN Result(w, 1, [exit |-> TRUE, arg_start |-> 1])
    ELSE LET after_p(p) ==
                 LET w1 == [w EXCEPT !.g_force = p.g_force, !.g_screen = p.g_screen]
                     after_a(a) ==
                         IF p.exit
                         THEN Result(w1, p.code, [exit |-> TRUE, arg_start |-> p.arg_start])
                         ELSE IF p.arg_start >= Argc(av)
                         THEN Result(w1, 1, [exit |-> TRUE, arg_start |-> p.arg_start])
                         ELSE IF a.r < 0
                         THEN Result(a, 1, [exit |-> TRUE, arg_start |-> p.arg_start])
                         ELSE Result(a, 0, [exit |-> FALSE, arg_start |-> p.arg_start])
                 IN  after_a(a20_disp_open(w1))
         IN  after_p(ParseOptions(av, 1, w.g_force, w.g_screen))

\* the setup validates its arguments, then releases and requests as the
\* generation-1 setup of the unified tool does
a20_setup_fb_with_scaling(w, fb_id, fb_width, fb_height, scn_width, scn_height, depth) ==
    IF w.g_disp_fd < 0 THEN Return(w, 0 - 1)
    ELSE IF fb_width = 0 \/ fb_height = 0 THEN Return(w, 0 - 1)
    ELSE IF scn_width = 0 \/ scn_height = 0 THEN Return(w, 0 - 1)
    ELSE IF ~ValidDepth(depth) THEN Return(w, 0 - 1)
    ELSE de1_setup_fb_with_scaling(w, fb_id, fb_width, fb_height, scn_width, scn_height, depth)

\* the scale branch with a self-check that gives up on a mismatch
a20_main_scale_strict(w, b, fb_arg, scn_arg, depth_arg) ==
    LET after_k(k) ==
            LET after_f(f) ==
                    LET after_s(s) ==
                            LET after_depth(depth) ==
                                    IF k.r > 0 THEN Result(k, 1, << >>)
                                    ELSE IF f.r # 0 \/ s.r # 0 THEN Result(k, 1, << >>)
                                    ELSE IF ~ValidDepth(depth) THEN Result(k, 1, <<depth>>)
                                    ELSE LET after_a(a) ==
                                                 Result(a, a.r, <<depth>>)
                                         IN  after_a(a20_setup_fb_with_scaling(
                                                         k, 0, f.width, f.height,
                                                         s.width, s.height, depth))
                            IN  after_depth(AToI(depth_arg))
                    IN  after_s(parse_resolution(scn_arg))
            IN  after_f(parse_resolution(fb_arg))
    IN  after_k(check_structure_alignment(w, b))

a20_main_scale(w, b, fb_arg, scn_arg, depth_arg) ==
    LET after_k(k) ==
            LET after_f(f) ==
                    LET after_s(s) ==
                            LET after_depth(depth) ==
                                    IF f.r # 0 \/ s.r # 0 THEN Result(k, 1, << >>)
                                    ELSE IF ~ValidDepth(depth) THEN Result(k, 1, <<depth>>)
                                    ELSE LET after_a(a) ==
                                                 Result(a, a.r, <<depth>>)
                                         IN  after_a(a20_setup_fb_with_scaling(
                                                         k, 0, f.width, f.height,
                                                         s.width, s.height, depth))
                            IN  after_depth(AToI(depth_arg))
                    IN  after_s(parse_resolution(scn_arg))
            IN  after_f(parse_resolution(fb_arg))
    IN  after_k(a20_self_check(w, b))

\* depth_arg is the argument after the command word, when there is one
a20_main_autoscale(w, b, has_depth, depth_arg) ==
    LET after_k(k) ==
            LET after_a(a) ==
                    LET after_b(b2) ==
                            LET after_depth(vinfo, scn, depth) ==
                                    IF a.r < 0 THEN Result(a, 1, << >>)
                                    ELSE IF b2.r < 0 THEN Result(b2, 1, << >>)
                                    ELSE IF has_depth /\ ~ValidDepth(depth)
                                    THEN Result(b2, 1, <<depth>>)
                                    ELSE IF vinfo.xres = scn.width /\ vinfo.yres = scn.height
                                    THEN Result(b2, 0, <<depth>>)
                                    ELSE LET after_c(c) ==
                                                 Result(c, c.r, <<depth>>)
                                         IN  after_c(a20_setup_fb_with_scaling(
                                                         b2, 0, vinfo.xres, vinfo.yres,
                                                         scn.width, scn.height, depth))
                            IN  after_depth(a.out, b2.out,
                                            IF has_depth THEN AToI(depth_arg)
                                            ELSE IF a.r < 0 THEN 0 ELSE a.out.bits_per_pixel)
                    IN  after_b(IF a.r < 0 THEN a ELSE de1_get_screen_size(a))
            IN  after_a(get_fb_info(k, TRUE, FALSE))
    IN  after_k(a20_self_check(w, b))

\* the command lines of the two scaling commands
A20CmdLines ==
    {<<<<"p">>, Lit.scale, <<"6","4","0","x","4","8","0">>, <<"1","2","8","0","x","7","2","0">>, <<"3","2">>>>,
     <<<<"p">>, Lit.scale, <<"1","2","8","0","x","7","2","0">>, <<"1","2","8","0","x","7","2","0">>, <<"1","6">>>>,
     <<<<"p">>, Lit.scale, <<"6","4","0","x","4","8","0">>, <<"1","2","8","0","x","7","2","0">>, <<"8">>>>,
     <<<<"p">>, Lit.scale, <<"j","u","n","k">>, <<"1","2","8","0","x","7","2","0">>, <<"3","2">>>>,
     <<<<"p">>, Lit.scale, <<"0","x","0">>, <<"1","2","8","0","x","7","2","0">>, <<"3","2">>>>,
     <<<<"p">>, Lit.autoscale>>,
     <<<<"p">>, Lit.autoscale, <<"1","6">>>>,
     <<<<"p">>, Lit.autoscale, <<"8">>>>,
     <<<<"p">>, Lit.opt_s, <<"1">>, Lit.autoscale>>}

A20Start ==
    /\ pc = "shell"
    /\ \E av \in A20CmdLines, o \in Outcomes(1), sink \in Sink :
        Started(av, a20_main_start(World(o, sink), av))

A20Scale ==
    /\ pc = "opened" /\ Branch(argv, arg_start) = "scale"
    /\ \E o \in Outcomes(2), sink \in Sink :
        AtDone("scale", a20_main_scale(World(o, sink), build, Arg(argv, arg_start + 1),
                                       Arg(argv, arg_start + 2), Arg(argv, arg_start + 3)))

A20Autoscale ==
    /\ pc = "opened" /\ Branch(argv, arg_start) = "autoscale"
    /\ \E o \in Outcomes(6), sink \in Sink :
        AtDone("autoscale", a20_main_autoscale(World(o, sink), build, HasDepthArg, DepthArg))

NextA20 ==
    \/ A20Start
    \/ A20Scale
    \/ A20Autoscale
    \/ MainDone

\* a generation-1 board, the tool built in any of the three ways
InitA20 ==
    /\ hw = BoardA20.hw /\ cpuinfo = BoardA20.cpuinfo
    /\ hdmi_state = [exists |-> FALSE, text |-> << >>]
    /\ drv \in DriverStates
    /\ fbdev \in FbStates
    /\ g_de_version = DE_VERSION_1
    /\ g_disp_fd = 0 - 1
    /\ g_fb_fd = 0 - 1
    /\ g_screen = 0
    /\ g_force = 0
    /\ pc = "shell"
    /\ argv = << >>
    /\ arg_start = 1
    /\ ret = 0
    /\ exit_code = 0 - 1
    /\ calls = << >>
    /\ fdtab = << >>
    /\ ndetect = 0
    /\ last = NoOp
    /\ det = [results |-> << >>, drv0 |-> drv, fb0 |-> fbdev]
    /\ printed = << >>
    /\ runs = << >>
    /\ query = NoQuery
    /\ layout = NoLayout
    /\ build \in Builds

SpecA20 == InitA20 /\ [][NextA20]_vars

-----------------------------------------------------------------------------
(* The hot-plug query *)

\* the hot-plug switch state file: absent, or holding a number, nothing, or
\* something that is no number
HpdFiles ==
    {NoFile, File(<<"1">>), File(<<"0">>), File(<<"2">>), File(<<"x">>), File(<< >>)}

InitHpd ==
    /\ \E b \in ApiBoards : hw = b.hw /\ cpuinfo = b.cpuinfo
    /\ \E f \in HpdFiles : hdmi_state = [exists |-> f.exists, text |-> f.lines]
    /\ drv = DriverOn
    /\ fbdev = Fb(1280, 720, 720, 32)
    /\ g_de_version = DE_VERSION_UNKNOWN
    /\ g_disp_fd = 0 - 1
    /\ g_fb_fd = 0 - 1
    /\ g_screen = 0
    /\ g_force = 0
    /\ pc = "api"
    /\ argv = << >>
    /\ arg_start = 1
    /\ ret = 0
    /\ exit_code = 0 - 1
    /\ calls = << >>
    /\ fdtab = << >>
    /\ ndetect = 0
    /\ last = NoOp
    /\ det = [results |-> << >>, drv0 |-> drv, fb0 |-> fbdev]
    /\ printed = << >>
    /\ runs = << >>
    /\ query = NoQuery
    /\ layout = NoLayout
    /\ build = DocumentedBuild

ApiHdmiGetHpd ==
    /\ pc = "api"
    /\ \E o \in Outcomes(1), sink \in Sink :
        Returned("hdmi_get_hpd", << >>, hdmi_get_hpd(ApiWorld(o, sink)))

\* show_info, which prints what the query returned; the output starts empty
ApiShowInfo ==
    /\ pc = "api"
    /\ \E o \in InfoOutcomes, sink \in Sink :
        Returned("show_info", << >>,
                 Return(show_info([ApiWorld(o, sink) EXCEPT !.printed = << >>]), 0))

NextHpd ==
    \/ ApiDispOpen
    \/ ApiHdmiGetHpd
    \/ ApiShowInfo

SpecHpd == InitHpd /\ [][NextHpd]_vars

-----------------------------------------------------------------------------
(* Turning the output on and off, whatever mode the driver reports *)

\* the mode the driver holds for screen 0: none (all bits set, -1 as an int),
\* 480i, 576i, 480p, 720p50 or 720p60
DriverModes ==
    {0 - 1, DISP_TV_MOD_480I, DISP_TV_MOD_576I, DISP_TV_MOD_480P,
     DISP_TV_MOD_720P_50HZ, DISP_TV_MOD_720P_60HZ}

DriverIn(mode) ==
    [scr \in {0, 1} |->
        IF scr = 0 THEN Screen(DISP_OUTPUT_TYPE_NONE, mode, 1280, 720)
        ELSE Screen(DISP_OUTPUT_TYPE_NONE, 0, 0, 0)]

InitOn ==
    /\ \E b \in ApiBoards : hw = b.hw /\ cpuinfo = b.cpuinfo
    /\ hdmi_state = [exists |-> FALSE, text |-> << >>]
    /\ \E mode \in DriverModes : drv = DriverIn(mode)
    /\ fbdev = Fb(1280, 720, 720, 32)
    /\ g_de_version = DE_VERSION_UNKNOWN
    /\ g_disp_fd = 0 - 1
    /\ g_fb_fd = 0 - 1
    /\ g_screen = 0
    /\ g_force \in {0, 1}
    /\ pc = "api"
    /\ argv = << >>
    /\ arg_start = 1
    /\ ret = 0
    /\ exit_code = 0 - 1
    /\ calls = << >>
    /\ fdtab = << >>
    /\ ndetect = 0
    /\ last = NoOp
    /\ det = [results |-> << >>, drv0 |-> drv, fb0 |-> fbdev]
    /\ printed = << >>
    /\ runs = << >>
    /\ query = NoQuery
    /\ layout = NoLayout
    /\ build = DocumentedBuild

\* hdmi_on; the mode the driver held when it was called is kept with the call
OnHdmiOn ==
    /\ pc = "api"
    /\ \E o \in Outcomes(4) :
        Returned("hdmi_on", <<drv[g_screen].mode>>, hdmi_on(ApiWorld(o, 1)))

\* hdmi_init; what the display makes the driver answer to a support query
\* is kept with the call
OnHdmiInit ==
    /\ pc = "api"
    /\ \E mode \in ApiModes, o \in Outcomes(4), sink \in Sink :
        Returned("hdmi_init", <<mode, sink>>, hdmi_init(ApiWorld(o, sink), mode))

NextOn ==
    \/ ApiDispOpen
    \/ OnHdmiOn
    \/ OnHdmiInit
    \/ ApiHdmiOff

SpecOn == InitOn /\ [][NextOn]_vars

-----------------------------------------------------------------------------
(* The scaled-framebuffer setup on either screen *)

\* the framebuffer matches the screen, or is a smaller double-buffered one
SetupFbStates == {Fb(1280, 720, 720, 32), Fb(640, 480, 960, 16)}

InitSetup ==
    /\ \E b \in ApiBoards : hw = b.hw /\ cpuinfo = b.cpuinfo
    /\ hdmi_state = [exists |-> FALSE, text |-> << >>]
    /\ drv = DriverOn
    /\ fbdev \in SetupFbStates
    /\ g_de_version = DE_VERSION_UNKNOWN
    /\ g_disp_fd = 0 - 1
    /\ g_fb_fd = 0 - 1
    /\ g_screen \in {0, 1}
    /\ g_force = 0
    /\ pc = "api"
    /\ argv = << >>
    /\ arg_start = 1
    /\ ret = 0
    /\ exit_code = 0 - 1
    /\ calls = << >>
    /\ fdtab = << >>
    /\ ndetect = 0
    /\ last = NoOp
    /\ det = [results |-> << >>, drv0 |-> drv, fb0 |-> fbdev]
    /\ printed = << >>
    /\ runs = << >>
    /\ query = NoQuery
    /\ layout = NoLayout
    /\ build = DocumentedBuild

NextSetup ==
    \/ ApiDispOpen
    \/ ApiSetupFb

SpecSetup == InitSetup /\ [][NextSetup]_vars

-----------------------------------------------------------------------------
(* Every operation of the unified API, before and after the device is opened *)

InitDispatch ==
    /\ \E b \in ApiBoards : hw = b.hw /\ cpuinfo = b.cpuinfo
    /\ hdmi_state \in HdmiStates
    /\ drv = DriverOn
    /\ fbdev = Fb(1280, 720, 720, 32)
    /\ g_de_version = DE_VERSION_UNKNOWN
    /\ g_disp_fd = 0 - 1
    /\ g_fb_fd = 0 - 1
    /\ g_screen = 0
    /\ g_force = 0
    /\ pc = "api"
    /\ argv = << >>
    /\ arg_start = 1
    /\ ret = 0
    /\ exit_code = 0 - 1
    /\ calls = << >>
    /\ fdtab = << >>
    /\ ndetect = 0
    /\ last = NoOp
    /\ det = [results |-> << >>, drv0 |-> drv, fb0 |-> fbdev]
    /\ printed = << >>
    /\ runs = << >>
    /\ query = NoQuery
    /\ layout = NoLayout
    /\ build = DocumentedBuild

DispatchGetScreenSize ==
    /\ pc = "api"
    /\ \E o \in Outcomes(2) :
        Returned("get_screen_size", << >>, get_screen_size(ApiWorld(o, 1)))

DispatchGetOutputType ==
    /\ pc = "api"
    /\ \E o \in Outcomes(1) :
        Returned("get_output_type", << >>, get_output_type(ApiWorld(o, 1)))

DispatchModeSupported ==
    /\ pc = "api"
    /\ \E mode \in ApiModes, o \in Outcomes(1), sink \in Sink :
        Returned("hdmi_mode_supported", <<mode>>, hdmi_mode_supported(ApiWorld(o, sink), mode))

DispatchGetMode ==
    /\ pc = "api"
    /\ \E o \in Outcomes(1) :
        Returned("hdmi_get_mode", << >>, hdmi_get_mode(ApiWorld(o, 1)))

\* the setup of a 32-bit framebuffer, scaled or not
DispatchSetupFb ==
    /\ pc = "api"
    /\ \E fb \in {<<640, 480>>, <<1280, 720>>}, o \in Outcomes(3) :
        Returned("setup_fb_with_scaling", <<fb[1], fb[2], 1280, 720, 32>>,
                 setup_fb_with_scaling(ApiWorld(o, 1), 0, fb[1], fb[2], 1280, 720, 32))

NextDispatch ==
    \/ ApiDispOpen
    \/ DispatchGetScreenSize
    \/ DispatchGetOutputType
    \/ ApiHdmiGetHpd
    \/ DispatchModeSupported
    \/ DispatchGetMode
    \/ ApiHdmiInit
    \/ ApiHdmiOn
    \/ ApiHdmiOff
    \/ DispatchSetupFb

SpecDispatch == InitDispatch /\ [][NextDispatch]_vars

-----------------------------------------------------------------------------
(* Properties *)

\* the positions in a call log of the display-control calls with command c
Ioctls(cs, c) ==
    {i \in 1..Len(cs) : cs[i].op = "ioctl" /\ cs[i].dev = "disp" /\ cs[i].cmd = c}

\* the positions in a call log of the framebuffer-geometry writes
Writes(cs) ==
    {i \in 1..Len(cs) : cs[i].op = "ioctl" /\ cs[i].dev = "fb" /\ cs[i].cmd = FBIOPUT_VSCREENINFO}

\* the positions in the call log of the successful opens of dev, of all
\* successful opens, and of all successful closes
Opens(dev) == {i \in 1..Len(calls) : calls[i].op = "open" /\ calls[i].dev = dev /\ calls[i].res >= 0}
AllOpens == {i \in 1..Len(calls) : calls[i].op = "open" /\ calls[i].res >= 0}
AllCloses == {i \in 1..Len(calls) : calls[i].op = "close" /\ calls[i].res = 0}

\* C1: on generation 1, hdmi_init called with the force flag clear and no
\* positive answer to the support query returns a failure and issues no
\* disable-output, set-mode or enable-output call, whatever the mode.
C1_Gen1InitRejectsUnsupported ==
    ( /\ last.op = "hdmi_init"
      /\ g_de_version = DE_VERSION_1
      /\ last.force = 0
      /\ \A i \in Ioctls(calls, DE1_CMD_HDMI_SUPPORT_MODE) : calls[i].res <= 0 )
    => ( /\ last.r < 0
         /\ Ioctls(calls, DE1_CMD_HDMI_OFF) = {}
         /\ Ioctls(calls, DE1_CMD_HDMI_SET_MODE) = {}
         /\ Ioctls(calls, DE1_CMD_HDMI_ON) = {} )

\* a generation-1 hdmi_init without force whose support query answered 0 and
\* that failed
C1_Witness ==
    /\ last.op = "hdmi_init"
    /\ g_de_version = DE_VERSION_1
    /\ hw = DE_VERSION_1
    /\ last.force = 0
    /\ Len(calls) = 1
    /\ calls[1].cmd = DE1_CMD_HDMI_SUPPORT_MODE
    /\ calls[1].res = 0
    /\ last.r < 0

\* C2: the force flag after hdmi_on equals the force flag before it, on both
\* generations and for every outcome of the driver calls; so an hdmi_init
\* that follows hdmi_on queries the mode support exactly when the flag the
\* user gave is clear.
C2_ForceScoped ==
    /\ [](last.op = "hdmi_on" => g_force = last.force)
    /\ [][ (last.op = "hdmi_on" /\ last'.op = "hdmi_init" /\ g_de_version # DE_VERSION_UNKNOWN)
           => ( (Ioctls(calls', DE1_CMD_HDMI_SUPPORT_MODE) \cup
                 Ioctls(calls', DE2_CMD_HDMI_SUPPORT_MODE) # {}) <=> last.force = 0 ) ]_vars

\* a generation-1 hdmi_on that fell back to the forced initialisation with
\* the user's flag clear
C2_Witness ==
    /\ last.op = "hdmi_on"
    /\ g_de_version = DE_VERSION_1
    /\ last.force = 0
    /\ Ioctls(calls, DE1_CMD_HDMI_SET_MODE) # {}
    /\ Ioctls(calls, DE1_CMD_HDMI_SUPPORT_MODE) = {}
    /\ g_force = 0

\* C3: a depth other than 16, 24 or 32 given to fb set, scale, autoscale or
\* noscale, or taken from the current framebuffer, is rejected before any
\* device call is made for the operation.
C3_BadDepthRejectedBeforeAnyCall ==
    ( /\ pc = "done"
      /\ last.op \in {"fb set", "scale", "autoscale", "noscale"}
      /\ last.args # << >>
      /\ ~ValidDepth(last.args[1]) )
    => (last.r # 0 /\ Len(calls) = last.from)

\* C4: the exit code is 0 exactly when the command succeeded and 1 for every
\* handled failure.
C4_ExitCodeZeroOrOne ==
    pc = "exited" => exit_code = (IF last.r = 0 THEN 0 ELSE 1)

\* C5: on generation 1 the framebuffer request of the scaled-framebuffer
\* setup carries work mode normal when source width and height equal
\* destination width and height, and work mode scaler otherwise.
C5_WorkModeFollowsDimensions ==
    (last.op = "setup_fb_with_scaling" /\ g_de_version = DE_VERSION_1)
    => ( /\ Ioctls(calls, DE1_CMD_FB_REQUEST) # {}
         /\ \A i \in Ioctls(calls, DE1_CMD_FB_REQUEST) :
               calls[i].data[2] =
                   IF last.args[1] = last.args[3] /\ last.args[2] = last.args[4]
                   THEN DE1_LAYER_WORK_MODE_NORMAL
                   ELSE DE1_LAYER_WORK_MODE_SCALER )

\* a generation-1 setup whose widths are equal and whose heights differ,
\* requested in scaler mode
C5_Witness ==
    /\ last.op = "setup_fb_with_scaling"
    /\ g_de_version = DE_VERSION_1
    /\ last.args[1] = last.args[3]
    /\ last.args[2] # last.args[4]
    /\ \E i \in Ioctls(calls, DE1_CMD_FB_REQUEST) :
          calls[i].data[2] = DE1_LAYER_WORK_MODE_SCALER

\* the framebuffer has the width, height and depth of a setup request
FbMatches(args) ==
    fbdev.xres = args[1] /\ fbdev.yres = args[2] /\ fbdev.bits_per_pixel = args[5]

\* C6: on generation 2 the scaled-framebuffer setup issues no geometry write
\* when the framebuffer already has the requested width, height and depth,
\* and never more than one; a setup that follows a successful setup with the
\* same arguments issues none.
C6_Gen2SetupIdempotent ==
    [][ (last'.op = "setup_fb_with_scaling" /\ g_de_version = DE_VERSION_2)
        => ( /\ Cardinality(Writes(calls')) <= 1
             /\ FbMatches(last'.args) => Writes(calls') = {}
             /\ (last.op = "setup_fb_with_scaling" /\ last.r = 0 /\ last.args = last'.args)
                   => Writes(calls') = {} ) ]_vars

\* a generation-2 setup that succeeded without a write on a framebuffer an
\* earlier setup had written
C6_Witness ==
    /\ last.op = "setup_fb_with_scaling"
    /\ g_de_version = DE_VERSION_2
    /\ last.r = 0
    /\ Writes(calls) = {}
    /\ FbMatches(last.args)
    /\ fbdev.xres = 640
    /\ fbdev.yres_virtual = 960

\* C7: for a fixed hardware-identity text and a fixed driver, consecutive
\* calls of detect_de_version return the same generation, and the driver's
\* output state and the framebuffer geometry after detection are those before it.
C7_DetectionDeterministicAndQuiet ==
    /\ \A i, j \in 1..Len(det.results) : det.results[i] = det.results[j]
    /\ drv = det.drv0
    /\ fbdev = det.fb0

\* two detections by probe on a generation-1 driver whose output is on
C7_Witness ==
    /\ Len(det.results) = 2
    /\ hw = DE_VERSION_1
    /\ Len(calls) = 1
    /\ calls[1].res >= 0
    /\ drv[0].type = DISP_OUTPUT_TYPE_HDMI

\* what the hardware-identity text says
IdentityMatch == IF cpuinfo.exists THEN SocFromLines(cpuinfo.lines, 1) ELSE DE_VERSION_UNKNOWN

\* C8: detect_de_version never returns Unknown; a conclusive identity match
\* is returned without a probe call; otherwise generation 1 if the hot-plug
\* probe answers anything but ENOTTY; otherwise generation 2 if the
\* mode-support probe answers anything but ENOTTY; otherwise generation 1.
C8_DetectionOrder ==
    last.op = "detect_de_version"
    => ( /\ last.r \in {DE_VERSION_1, DE_VERSION_2}
         /\ IF IdentityMatch # DE_VERSION_UNKNOWN
            THEN last.r = IdentityMatch /\ calls = << >>
            ELSE /\ Len(calls) >= 1
                 /\ calls[1].cmd = DE1_CMD_HDMI_GET_HPD
                 /\ IF calls[1].err # "ENOTTY"
                    THEN last.r = DE_VERSION_1 /\ Len(calls) = 1
                    ELSE /\ Len(calls) = 2
                         /\ calls[2].cmd = DE2_CMD_HDMI_SUPPORT_MODE
                         /\ last.r = IF calls[2].err # "ENOTTY"
                                     THEN DE_VERSION_2 ELSE DE_VERSION_1 )

\* a detection decided by the second probe while /proc/cpuinfo names no SoC
C8_Witness ==
    /\ last.op = "detect_de_version"
    /\ cpuinfo.exists
    /\ IdentityMatch = DE_VERSION_UNKNOWN
    /\ Len(calls) = 2
    /\ calls[2].err # "ENOTTY"
    /\ last.r = DE_VERSION_2

\* C9: g_de_version is Unknown until it is assigned, is assigned once, by
\* the first disp_open that opens the device, to generation 1 or 2, keeps
\* that value through every later call, repeated disp_open and failing
\* driver call included, and every control call of a backend is issued after it.
C9_GenerationSetOnce ==
    /\ []( /\ ndetect <= 1
           /\ ndetect = 0 => g_de_version = DE_VERSION_UNKNOWN
           /\ ndetect = 1 => g_de_version \in {DE_VERSION_1, DE_VERSION_2}
           /\ (last.op \notin {"none", "disp_open"} /\ calls # << >>)
                 => g_de_version # DE_VERSION_UNKNOWN )
    /\ [][ /\ g_de_version # DE_VERSION_UNKNOWN => g_de_version' = g_de_version
           /\ g_de_version' # g_de_version
                 => (last'.op = "disp_open" /\ last'.r = 0 /\ g_disp_fd < 0 /\ g_disp_fd' >= 0)
         ]_vars

\* a disp_open called while the device is open: no call, the generation kept
C9_Witness ==
    /\ last.op = "disp_open"
    /\ last.args[1] >= 0
    /\ last.r = 0
    /\ calls = << >>
    /\ ndetect = 1
    /\ g_de_version = DE_VERSION_2

\* C10: /dev/disp is opened at most once per process, no close is issued on
\* a descriptor that is not open, and when the process exits after the
\* device was opened every descriptor it opened has been closed once.
C10_DescriptorsClosedOnce ==
    /\ Cardinality(Opens("disp")) <= 1
    /\ \A i \in 1..Len(calls) : calls[i].op = "close" => calls[i].res = 0
    /\ (pc = "exited" /\ Opens("disp") # {})
          => ( /\ \A k \in 1..Len(fdtab) : ~fdtab[k].open
               /\ Cardinality(AllOpens) = Cardinality(AllCloses) )

\* an exit after fb set failed at the geometry write: two descriptors
\* opened, two closed
C10_Witness ==
    /\ pc = "exited"
    /\ last.op = "fb set"
    /\ last.r < 0
    /\ Cardinality(AllOpens) = 2
    /\ Cardinality(AllCloses) = 2
    /\ Writes(calls) # {}

\* the resolution or resolution+depth argument of the command that ran does
\* not parse
MalformedInput ==
    \/ last.op = "hdmi init" /\ parse_resolution(Arg(argv, arg_start + 2)).r # 0
    \/ last.op = "fb set" /\ parse_resolution_depth(Arg(argv, arg_start + 2)).r # 0
    \/ last.op = "scale" /\ ( \/ parse_resolution(Arg(argv, arg_start + 1)).r # 0
                              \/ parse_resolution(Arg(argv, arg_start + 2)).r # 0 )

\* C11: a resolution or resolution+depth string that does not parse, given
\* to hdmi init, fb set or scale, is rejected before any device interaction:
\* no device path has been opened and no control or probe call issued.
C11_MalformedRejectedBeforeDevice ==
    (pc = "done" /\ MalformedInput) => (last.r # 0 /\ calls = << >>)

\* the run before this one
PreviousRun == runs[Len(runs)]

\* the positions in printed of the report lines named line
Lines(line) == {i \in 1..Len(printed) : printed[i].line = line}

\* C12: on either generation, an info run that directly follows a noscale
\* run that succeeded on the same screen reads a framebuffer width and height
\* equal to the screen width and height and reports the scaling state
\* "none (1:1)", never an active scaling.
C12_NoscaleThenInfoReportsNone ==
    ( /\ last.op = "info"
      /\ runs # << >>
      /\ PreviousRun.op = "noscale"
      /\ PreviousRun.r = 0
      /\ PreviousRun.g_screen = g_screen )
    => ( /\ \A i \in Lines("Scaling") : printed[i].text = "none (1:1)"
         /\ \A i \in Lines("Resolution") : printed[i].args = <<drv[g_screen].scn_w, drv[g_screen].scn_h>>
         /\ (\A k \in (last.from + 1)..Len(calls) : calls[k].res >= 0)
               => Lines("Scaling") # {} )

\* an info run on generation 2 that reports no scaling after a noscale run
\* that widened a 640x480 framebuffer of depth 8 to the screen
C12_Witness ==
    /\ last.op = "info"
    /\ runs # << >>
    /\ PreviousRun.op = "noscale"
    /\ PreviousRun.r = 0
    /\ g_de_version = DE_VERSION_2
    /\ fbdev.xres = 1280
    /\ fbdev.bits_per_pixel = 8
    /\ \E i \in Lines("Scaling") : printed[i].text = "none (1:1)"

\* the catalog positions of the entries with width w and height h
SameSize(w, h) ==
    {i \in 1..Len(mode_table) : mode_table[i].width = w /\ mode_table[i].height = h}

\* C13: for every entry e of the mode catalog, find_mode_by_name of e's
\* name, in lower or upper case, returns e, and get_mode_info on the
\* identifier of that result returns e again.
C13_NameRoundTrip ==
    /\ query.by = "name"
          => \A i \in 1..Len(mode_table) :
                query.key \in {mode_table[i].name, StrUpper(mode_table[i].name)}
                   => query.entry = mode_table[i]
    /\ (query.by = "id" /\ query.from # NoQuery /\ query.from.by = "name")
          => query.entry = query.from.entry

\* the round trip of "1080P25", whose identifier 26 is not its catalog position
C13_Witness ==
    /\ query.by = "id"
    /\ query.from # NoQuery
    /\ query.from.by = "name"
    /\ query.from.key = <<"1","0","8","0","P","2","5">>
    /\ query.key = <<26>>
    /\ query.entry = mode_table[12]

\* C14: find_mode_by_resolution(w, h, 0) returns, for a (w, h) the catalog
\* holds, the first entry in catalog order with that width and height, and
\* no entry for a (w, h) the catalog does not hold.
C14_ResolutionLookupFirstMatch ==
    (query.by = "resolution" /\ query.key[3] = 0)
    => IF SameSize(query.key[1], query.key[2]) = {}
       THEN query.entry = NoMode
       ELSE /\ query.entry # NoMode
            /\ query.entry.width = query.key[1]
            /\ query.entry.height = query.key[2]
            /\ \E i \in SameSize(query.key[1], query.key[2]) :
                  /\ query.entry = mode_table[i]
                  /\ \A j \in SameSize(query.key[1], query.key[2]) : i <= j

\* 1920x1080 with any refresh: of the seven entries the first, 1080i50
C14_Witness ==
    /\ query.by = "resolution"
    /\ query.key = <<1920, 1080, 0>>
    /\ query.entry = mode_table[7]
    /\ Cardinality(SameSize(1920, 1080)) = 7

\* C15: each lookup key matches at most one catalog entry: no two entries
\* share an identifier, a name compared case-insensitively, or a
\* (width, height, refresh) triple.
C15_KeysMatchOneEntry ==
    /\ query.by = "id"
          => Cardinality({i \in 1..Len(mode_table) : mode_table[i].mode = query.key[1]}) <= 1
    /\ query.by = "name"
          => Cardinality({i \in 1..Len(mode_table) :
                             StrUpper(mode_table[i].name) = StrUpper(query.key)}) <= 1
    /\ (query.by = "resolution" /\ query.key[3] # 0)
          => Cardinality({i \in SameSize(query.key[1], query.key[2]) :
                             mode_table[i].refresh = query.key[3]}) <= 1

\* where the member called name of the structure laid out was placed
OffsetOf(name) ==
    layout.offsets[CHOOSE i \in 1..Len(layout.offsets) : Structs[layout.type][i].name = name]

\* C16: the generation-1 wire structures have fixed sizes and offsets: the
\* framebuffer descriptor is 64 bytes; the layer descriptor is 116 bytes with
\* its source window at offset 12, its screen window at 28 and its embedded
\* framebuffer descriptor at 44; the framebuffer-creation parameters are 56
\* bytes; a rectangle is 16 bytes and a size pair 8 bytes.
C16_WireStructureLayout ==
    (layout # NoLayout /\ layout.size >= 0)
    => /\ layout.type = "de1_fb_t" => layout.size = 64
       /\ layout.type = "de1_layer_info_t"
             => /\ layout.size = 116
                /\ OffsetOf("src_win") = 12
                /\ OffsetOf("scn_win") = 28
                /\ OffsetOf("fb") = 44
       /\ layout.type = "de1_fb_create_para_t" => layout.size = 56
       /\ layout.type = "disp_rect" => layout.size = 16
       /\ layout.type = "disp_rectsz" => layout.size = 8

\* the layer descriptor laid out to its end, with padding before alpha_val,
\* src_win and out_trd_mode
C16_Witness ==
    /\ layout # NoLayout
    /\ layout.type = "de1_layer_info_t"
    /\ layout.size = 116
    /\ layout.end = 116
    /\ layout.offsets = <<0, 4, 5, 6, 7, 8, 10, 12, 28, 44, 108, 112>>

\* the run was a scale command whose arguments parse, whose depth is valid
\* and whose framebuffer or screen size has a zero dimension, so that the
\* scaled-framebuffer setup was called with it
ScaleWithZeroDimension ==
    /\ last.op = "scale"
    /\ parse_resolution(Arg(argv, arg_start + 1)).r = 0
    /\ parse_resolution(Arg(argv, arg_start + 2)).r = 0
    /\ ValidDepth(AToI(Arg(argv, arg_start + 3)))
    /\ \/ parse_resolution(Arg(argv, arg_start + 1)).width = 0
       \/ parse_resolution(Arg(argv, arg_start + 1)).height = 0
       \/ parse_resolution(Arg(argv, arg_start + 2)).width = 0
       \/ parse_resolution(Arg(argv, arg_start + 2)).height = 0

\* C17: the scaled-framebuffer setup called with any of the four dimensions
\* equal to zero returns a failure without issuing a framebuffer release, a
\* framebuffer request or a framebuffer-geometry write.
C17_ZeroDimensionsRejected ==
    (pc = "done" /\ ScaleWithZeroDimension)
    => /\ last.r # 0
       /\ Ioctls(calls, DE1_CMD_FB_RELEASE) = {}
       /\ Ioctls(calls, DE1_CMD_FB_REQUEST) = {}
       /\ Writes(calls) = {}

\* the command ended with the call log and the result code of the run x
SameCallsAndResult(x) == x.calls = calls' /\ x.r = ret'

\* C18: a layout mismatch found by the structure self-check only produces a
\* warning: the scaling command that ran the check issues the calls, with
\* the results, and returns the result code of a run of the same command from
\* the same state in a build whose check passes.
C18_SelfCheckOnlyWarns ==
    [][ (pc = "opened" /\ pc' = "done")
        => IF Branch(argv, arg_start) = "scale"
           THEN \E o \in Outcomes(2) :
                   SameCallsAndResult(
                       a20_main_scale(World(o, 0), DocumentedBuild, Arg(argv, arg_start + 1),
                                      Arg(argv, arg_start + 2), Arg(argv, arg_start + 3)))
           ELSE \E o \in Outcomes(6) :
                   SameCallsAndResult(
                       a20_main_autoscale(World(o, 0), DocumentedBuild, HasDepthArg, DepthArg))
      ]_vars

\* a scale run of a build with one-byte enums: the mismatch was reported,
\* the framebuffer was requested and the command succeeded
C18_Witness ==
    /\ pc = "done"
    /\ last.op = "scale"
    /\ build = Build(1, FALSE)
    /\ Lines("STRUCTURE ALIGNMENT MISMATCH DETECTED") # {}
    /\ Lines("Continuing anyway (may crash)...") # {}
    /\ \E i \in Ioctls(calls, DE1_CMD_FB_REQUEST) : calls[i].res >= 0
    /\ last.r = 0

\* what the hot-plug switch state file holds, read as a number: -1 when the
\* file is absent or holds no number
HpdFileValue ==
    IF ~hdmi_state.exists THEN 0 - 1
    ELSE IF hdmi_state.text = <<"0">> THEN 0
    ELSE IF hdmi_state.text = <<"1">> THEN 1
    ELSE IF hdmi_state.text = <<"2">> THEN 2
    ELSE 0 - 1

\* C19: on generation 2 the hot-plug query returns the integer read from the
\* hot-plug switch state file when the file exists and parses, and -1 when it
\* is absent or unreadable; it issues no control call, and -1 is passed on as
\* it is, reported neither as connected nor as disconnected.
C19_Gen2HotPlugTriState ==
    /\ (last.op = "hdmi_get_hpd" /\ g_de_version = DE_VERSION_2)
          => (last.r = HpdFileValue /\ calls = << >>)
    /\ (last.op = "show_info" /\ g_de_version = DE_VERSION_2)
          => /\ Lines("HDMI Hot Plug") # {}
             /\ \A i \in Lines("HDMI Hot Plug") :
                   /\ printed[i].args = <<HpdFileValue>>
                   /\ printed[i].text = "Error" <=> HpdFileValue < 0
                   /\ printed[i].text = "Connected" <=> HpdFileValue > 0
                   /\ printed[i].text = "Disconnected" <=> HpdFileValue = 0
             /\ Ioctls(calls, DE1_CMD_HDMI_GET_HPD) = {}

\* the query on generation 2 with a state file that holds no number
C19_Witness ==
    /\ last.op = "hdmi_get_hpd"
    /\ g_de_version = DE_VERSION_2
    /\ g_disp_fd >= 0
    /\ hdmi_state = [exists |-> TRUE, text |-> <<"x">>]
    /\ last.r = 0 - 1
    /\ calls = << >>

\* the position in the call log of hdmi_init's first control call: after the
\* support query when the force flag is clear
FirstControlCall == IF last.force = 0 THEN 2 ELSE 1

\* C20: on generation 1, when the support check passes or the force flag is
\* set, hdmi_init issues disable-output, set-mode(mode), enable-output in this
\* order; a failing disable-output does not stop the sequence; a failing
\* set-mode makes hdmi_init fail with no enable-output call; a failing
\* enable-output makes hdmi_init fail.
C20_Gen1InitOrder ==
    ( /\ last.op = "hdmi_init"
      /\ g_de_version = DE_VERSION_1
      /\ g_disp_fd >= 0
      /\ \/ last.force = 1
         \/ \E i \in Ioctls(calls, DE1_CMD_HDMI_SUPPORT_MODE) : calls[i].res > 0 )
    => ( /\ Len(calls) >= FirstControlCall + 1
         /\ \A i \in Ioctls(calls, DE1_CMD_HDMI_SUPPORT_MODE) : i < FirstControlCall
         /\ calls[FirstControlCall].cmd = DE1_CMD_HDMI_OFF
         /\ calls[FirstControlCall + 1].cmd = DE1_CMD_HDMI_SET_MODE
         /\ calls[FirstControlCall + 1].args[2] = last.args[1]
         /\ IF calls[FirstControlCall + 1].res < 0
            THEN Len(calls) = FirstControlCall + 1 /\ last.r < 0
            ELSE /\ Len(calls) = FirstControlCall + 2
                 /\ calls[FirstControlCall + 2].cmd = DE1_CMD_HDMI_ON
                 /\ calls[FirstControlCall + 2].res < 0 => last.r < 0
                 /\ calls[FirstControlCall + 2].res >= 0 => last.r >= 0 )

\* a supported mode, a disable-output that failed, and the mode set and the
\* output enabled all the same
C20_Witness ==
    /\ last.op = "hdmi_init"
    /\ g_de_version = DE_VERSION_1
    /\ last.force = 0
    /\ Len(calls) = 4
    /\ calls[1].cmd = DE1_CMD_HDMI_SUPPORT_MODE /\ calls[1].res > 0
    /\ calls[2].cmd = DE1_CMD_HDMI_OFF /\ calls[2].res < 0
    /\ calls[3].cmd = DE1_CMD_HDMI_SET_MODE /\ calls[3].res >= 0
    /\ calls[4].cmd = DE1_CMD_HDMI_ON /\ calls[4].res >= 0
    /\ last.r >= 0

\* C21: on generation 1, hdmi_on first issues one enable-output call; when it
\* succeeds no other control call follows; when it fails hdmi_on issues
\* disable-output, set-mode(720p50, id 4) and enable-output in this order and
\* never the mode-support query, whatever the force flag, and returns what
\* this fallback returns.
C21_Gen1OnFallback ==
    ( /\ last.op = "hdmi_on"
      /\ g_de_version = DE_VERSION_1
      /\ g_disp_fd >= 0 )
    => ( /\ Len(calls) >= 1
         /\ calls[1].cmd = DE1_CMD_HDMI_ON
         /\ Ioctls(calls, DE1_CMD_HDMI_SUPPORT_MODE) = {}
         /\ \A i \in 1..Len(calls) : calls[i].op = "ioctl" /\ calls[i].dev = "disp"
         /\ IF calls[1].res >= 0
            THEN Len(calls) = 1 /\ last.r = calls[1].res
            ELSE /\ Len(calls) >= 3
                 /\ calls[2].cmd = DE1_CMD_HDMI_OFF
                 /\ calls[3].cmd = DE1_CMD_HDMI_SET_MODE
                 /\ calls[3].args = <<g_screen, DISP_TV_MOD_720P_50HZ, 0, 0>>
                 /\ DISP_TV_MOD_720P_50HZ = 4
                 /\ IF calls[3].res < 0
                    THEN Len(calls) = 3 /\ last.r = 0 - 1
                    ELSE /\ Len(calls) = 4
                         /\ calls[4].cmd = DE1_CMD_HDMI_ON
                         /\ last.r = calls[4].res )

\* the enable-output call failed with the force flag clear, and the fallback
\* turned the output on in the default mode
C21_Witness ==
    /\ last.op = "hdmi_on"
    /\ g_de_version = DE_VERSION_1
    /\ g_disp_fd >= 0
    /\ last.force = 0
    /\ Len(calls) = 4
    /\ calls[1].cmd = DE1_CMD_HDMI_ON /\ calls[1].res < 0
    /\ calls[4].cmd = DE1_CMD_HDMI_ON /\ calls[4].res >= 0
    /\ last.r >= 0
    /\ drv[0].mode = DISP_TV_MOD_720P_50HZ

\* C22: on generation 2, hdmi_on reads the current mode and then issues
\* exactly one device-switch call with output type HDMI and no support query;
\* the mode it carries is the default 720p50 (id 4) when the read failed or the
\* current mode is negative, 0 (480i) or 1 (576i), and the current mode
\* otherwise.
C22_Gen2OnMode ==
    ( /\ last.op = "hdmi_on"
      /\ g_de_version = DE_VERSION_2
      /\ g_disp_fd >= 0 )
    => ( /\ Len(calls) = 2
         /\ calls[1].cmd = DE2_CMD_GET_OUTPUT
         /\ calls[2].cmd = DE2_CMD_DEVICE_SWITCH
         /\ calls[2].args[1] = g_screen
         /\ calls[2].args[2] = DISP_OUTPUT_TYPE_HDMI
         /\ calls[2].args[3] =
               IF \/ calls[1].res < 0
                  \/ last.args[1] < 0
                  \/ last.args[1] \in {DISP_TV_MOD_480I, DISP_TV_MOD_576I}
               THEN DISP_TV_MOD_720P_50HZ
               ELSE last.args[1]
         /\ Ioctls(calls, DE2_CMD_HDMI_SUPPORT_MODE) = {}
         /\ last.r = calls[2].res )

\* the driver held 576i, read without error, and the output was switched to
\* the default mode with the force flag clear
C22_Witness ==
    /\ last.op = "hdmi_on"
    /\ g_de_version = DE_VERSION_2
    /\ last.force = 0
    /\ last.args = <<DISP_TV_MOD_576I>>
    /\ Len(calls) = 2
    /\ calls[1].res >= 0
    /\ calls[2].res >= 0
    /\ drv[0] = Screen(DISP_OUTPUT_TYPE_HDMI, DISP_TV_MOD_720P_50HZ, 1280, 720)

\* C23: on generation 2, an hdmi_init(mode) that passes the support check or
\* runs with the force flag set issues exactly one device-switch call carrying
\* (HDMI, mode) and no enable-output, disable-output or set-mode call; hdmi_off
\* issues exactly one device-switch call carrying (no output, mode 0); an
\* hdmi_init with the force flag clear and no positive support answer issues
\* no device-switch call and returns a failure.
C23_Gen2SingleSwitch ==
    /\ ( /\ last.op = "hdmi_init"
         /\ g_de_version = DE_VERSION_2
         /\ g_disp_fd >= 0 )
       => ( /\ \A i \in 1..Len(calls) :
                  /\ calls[i].op = "ioctl" /\ calls[i].dev = "disp"
                  /\ calls[i].cmd \in {DE2_CMD_HDMI_SUPPORT_MODE, DE2_CMD_DEVICE_SWITCH}
            /\ Ioctls(calls, DE2_CMD_HDMI_SUPPORT_MODE) = 1..(FirstControlCall - 1)
            /\ IF last.force = 1 \/ calls[1].res > 0
               THEN /\ Ioctls(calls, DE2_CMD_DEVICE_SWITCH) = {FirstControlCall}
                    /\ calls[FirstControlCall].args =
                          <<g_screen, DISP_OUTPUT_TYPE_HDMI, last.args[1], 0>>
                    /\ last.r = calls[FirstControlCall].res
               ELSE /\ Ioctls(calls, DE2_CMD_DEVICE_SWITCH) = {}
                    /\ last.r < 0 )
    /\ ( /\ last.op = "hdmi_off"
         /\ g_de_version = DE_VERSION_2
         /\ g_disp_fd >= 0 )
       => ( /\ Len(calls) = 1
            /\ calls[1].op = "ioctl" /\ calls[1].dev = "disp"
            /\ calls[1].cmd = DE2_CMD_DEVICE_SWITCH
            /\ calls[1].args = <<g_screen, DISP_OUTPUT_TYPE_NONE, 0, 0>>
            /\ last.r = calls[1].res )

\* a generation-2 hdmi_init of 4K30 with the force flag clear that the display
\* does not support: the query was answered 0 and the output kept its mode
C23_Witness ==
    /\ last.op = "hdmi_init"
    /\ g_de_version = DE_VERSION_2
    /\ g_disp_fd >= 0
    /\ last.force = 0
    /\ last.args = <<DISP_TV_MOD_3840_2160P_30HZ>>
    /\ Len(calls) = 1
    /\ calls[1].cmd = DE2_CMD_HDMI_SUPPORT_MODE
    /\ calls[1].res = 0
    /\ last.r < 0
    /\ drv[0].mode = DISP_TV_MOD_720P_60HZ

\* the positions in the call log of the mode-support queries and of the calls
\* that set a mode, of either generation
SupportQueries ==
    Ioctls(calls, DE1_CMD_HDMI_SUPPORT_MODE) \cup Ioctls(calls, DE2_CMD_HDMI_SUPPORT_MODE)
ModeSettings ==
    Ioctls(calls, DE1_CMD_HDMI_SET_MODE) \cup Ioctls(calls, DE2_CMD_DEVICE_SWITCH)

\* C24: with the force flag set, hdmi_init on either generation issues no
\* mode-support query and goes on to the call that sets the mode, for every
\* mode and whatever the display would answer; with the force flag clear and
\* a support query that is not answered positively, hdmi_init sets no mode and
\* returns a failure.
C24_ForceOverridesRejection ==
    ( /\ last.op = "hdmi_init"
      /\ g_de_version \in {DE_VERSION_1, DE_VERSION_2}
      /\ g_disp_fd >= 0 )
    => ( /\ last.force = 1
            => ( /\ SupportQueries = {}
                 /\ Cardinality(ModeSettings) = 1
                 /\ \A i \in ModeSettings :
                       calls[i].args[IF g_de_version = DE_VERSION_1 THEN 2 ELSE 3] = last.args[1] )
         /\ last.force = 0
            => ( /\ Cardinality(SupportQueries) = 1
                 /\ \A i \in SupportQueries :
                       /\ calls[i].args[2] = last.args[1]
                       /\ calls[i].res <= 0 => (ModeSettings = {} /\ last.r = 0 - 1)
                       /\ calls[i].res > 0 => ModeSettings # {} ) )

\* 4K30 on a display that answers "not supported", set all the same on
\* generation 1 because the force flag is set
C24_Witness ==
    /\ last.op = "hdmi_init"
    /\ g_de_version = DE_VERSION_1
    /\ g_disp_fd >= 0
    /\ last.force = 1
    /\ last.args = <<DISP_TV_MOD_3840_2160P_30HZ, 0>>
    /\ SupportQueries = {}
    /\ last.r >= 0
    /\ drv[0].mode = DISP_TV_MOD_3840_2160P_30HZ

\* the source and the destination of a setup request differ
NeedsScaling(args) == args[1] # args[3] \/ args[2] # args[4]

\* C25 (as stated): the framebuffer request carries buffer count 1, the source
\* size, the destination size as output size and the selected screen, and
\* every other field of the structure is zero.
C25_OtherFieldsZero ==
    ( /\ last.op = "setup_fb_with_scaling"
      /\ g_de_version = DE_VERSION_1
      /\ g_disp_fd >= 0 )
    => \A i \in Ioctls(calls, DE1_CMD_FB_REQUEST) :
          calls[i].data = <<0, 0, 1, last.args[1], last.args[2], last.args[3], last.args[4],
                            g_screen, 0, 0, 0, 0, 0, 0>>

\* C25: on generation 1 the scaled-framebuffer setup issues exactly one
\* framebuffer-release call and then exactly one framebuffer-request call and
\* no other control call; a failing release does not stop it, and it fails
\* exactly when the request fails.  The request carries buffer count 1, the
\* source size, the destination size as output size, the selected screen as
\* primary screen id and the work mode "scaler" (4) when source and
\* destination differ; every other field, and the work mode when they are
\* equal, is zero.
C25_Gen1SetupCalls ==
    ( /\ last.op = "setup_fb_with_scaling"
      /\ g_de_version = DE_VERSION_1
      /\ g_disp_fd >= 0 )
    => ( /\ Len(calls) = 2
         /\ \A i \in 1..2 : calls[i].op = "ioctl" /\ calls[i].dev = "disp"
         /\ calls[1].cmd = DE1_CMD_FB_RELEASE
         /\ calls[2].cmd = DE1_CMD_FB_REQUEST
         /\ calls[2].data =
               <<0, IF NeedsScaling(last.args) THEN 4 ELSE 0, 1,
                 last.args[1], last.args[2], last.args[3], last.args[4],
                 g_screen, 0, 0, 0, 0, 0, 0>>
         /\ last.r = (IF calls[2].res < 0 THEN 0 - 1 ELSE 0) )

\* 640x480 scaled to 1280x720 on screen 1: the release failed, the request
\* was made all the same and succeeded
C25_Witness ==
    /\ last.op = "setup_fb_with_scaling"
    /\ g_de_version = DE_VERSION_1
    /\ g_disp_fd >= 0
    /\ g_screen = 1
    /\ last.args = <<640, 480, 1280, 720, 32>>
    /\ Len(calls) = 2
    /\ calls[1].cmd = DE1_CMD_FB_RELEASE /\ calls[1].res < 0
    /\ calls[2].cmd = DE1_CMD_FB_REQUEST /\ calls[2].res >= 0
    /\ calls[2].data[2] = DE1_LAYER_WORK_MODE_SCALER
    /\ last.r = 0

\* the positions in a call log of the display-control calls
DispCalls(cs) == {i \in 1..Len(cs) : cs[i].op = "ioctl" /\ cs[i].dev = "disp"}

\* the positions in a call log of the framebuffer-geometry reads
Reads(cs) ==
    {i \in 1..Len(cs) : cs[i].op = "ioctl" /\ cs[i].dev = "fb" /\ cs[i].cmd = FBIOGET_VSCREENINFO}

\* C26: on generation 2, when the width, height or depth of the framebuffer
\* differs from the request, the scaled-framebuffer setup issues no
\* display-control call and, once the framebuffer is open and its geometry
\* read, exactly one geometry write carrying visible size = source size,
\* virtual width = source width, virtual height = twice the source height and
\* the requested depth, whatever the destination size; a failing read or
\* write makes it fail, and it succeeds otherwise.
C26_Gen2GeometryWrite ==
    [][ ( /\ last'.op = "setup_fb_with_scaling"
          /\ g_de_version = DE_VERSION_2
          /\ ~FbMatches(last'.args) )
        => ( /\ DispCalls(calls') = {}
             /\ Cardinality(Reads(calls')) <= 1
             /\ \A i \in Reads(calls') :
                   IF calls'[i].res < 0
                   THEN Writes(calls') = {} /\ last'.r = 0 - 1
                   ELSE /\ Cardinality(Writes(calls')) = 1
                        /\ \A j \in Writes(calls') :
                              /\ j = i + 1
                              /\ SubSeq(calls'[j].data, 1, 5) =
                                    <<last'.args[1], last'.args[2], last'.args[1],
                                      2 * last'.args[2], last'.args[5]>>
                              /\ last'.r = (IF calls'[j].res < 0 THEN 0 - 1 ELSE 0)
             /\ Reads(calls') = {} => (Writes(calls') = {} /\ last'.r = 0 - 1) ) ]_vars

\* a 1280x480 framebuffer at 16 bits per pixel asked for on generation 2 with
\* a 1280x720 destination: written with a virtual height of 960
C26_Witness ==
    /\ last.op = "setup_fb_with_scaling"
    /\ g_de_version = DE_VERSION_2
    /\ last.args = <<1280, 480, 1280, 720, 16>>
    /\ Cardinality(Writes(calls)) = 1
    /\ DispCalls(calls) = {}
    /\ last.r = 0
    /\ fbdev.xres = 1280 /\ fbdev.yres = 480
    /\ fbdev.xres_virtual = 1280 /\ fbdev.yres_virtual = 960
    /\ fbdev.bits_per_pixel = 16

\* the operations of the unified API and what each returns when it fails
DispatcherOps ==
    {"get_screen_size", "get_output_type", "hdmi_get_hpd", "hdmi_mode_supported",
     "hdmi_get_mode", "hdmi_init", "hdmi_on", "hdmi_off", "setup_fb_with_scaling"}
FailureValue(op) == IF op = "hdmi_mode_supported" THEN 0 ELSE 0 - 1

\* the commands the backend of each generation issues
De1Backend ==
    {DE1_CMD_SCN_GET_WIDTH, DE1_CMD_SCN_GET_HEIGHT, DE1_CMD_GET_OUTPUT_TYPE,
     DE1_CMD_HDMI_ON, DE1_CMD_HDMI_OFF, DE1_CMD_HDMI_SET_MODE, DE1_CMD_HDMI_GET_MODE,
     DE1_CMD_HDMI_SUPPORT_MODE, DE1_CMD_HDMI_GET_HPD, DE1_CMD_FB_REQUEST, DE1_CMD_FB_RELEASE}
De2Backend ==
    {DE2_CMD_GET_SCN_WIDTH, DE2_CMD_GET_SCN_HEIGHT, DE2_CMD_GET_OUTPUT_TYPE,
     DE2_CMD_DEVICE_SWITCH, DE2_CMD_GET_OUTPUT, DE2_CMD_HDMI_SUPPORT_MODE}

\* with a generation active, an operation issues only that generation's
\* commands; with none, it issues no control call
BackendIsolation ==
    /\ g_de_version = DE_VERSION_1
       => \A i \in DispCalls(calls) :
             /\ calls[i].cmd \in De1Backend
             /\ calls[i].cmd \notin {\H0f, \H10, \Hc4, \H07}
    /\ g_de_version = DE_VERSION_2
       => \A i \in DispCalls(calls) :
             /\ calls[i].cmd \in De2Backend
             /\ calls[i].cmd \notin (\H1c0 .. \H1c5) \cup {\H280, \H281, \H0a}
    /\ g_de_version = DE_VERSION_UNKNOWN => calls = << >>

\* C27 (as stated): every operation of the unified API issues only the active
\* generation's commands, and with the generation unknown it issues no
\* control call and returns its failure value.
C27_RoutingOnly ==
    last.op \in DispatcherOps
    => ( /\ BackendIsolation
         /\ g_de_version = DE_VERSION_UNKNOWN => last.r = FailureValue(last.op) )

\* C27: every operation of the unified API issues only the active generation's
\* commands; with the generation unknown it issues no control call and
\* returns its failure value, except the hot-plug query, which returns the
\* number in the hot-plug state file when that file holds one.
C27_BackendIsolation ==
    last.op \in DispatcherOps
    => ( /\ BackendIsolation
         /\ g_de_version = DE_VERSION_UNKNOWN
            => last.r = (IF last.op = "hdmi_get_hpd" /\ HpdFileValue >= 0
                         THEN HpdFileValue ELSE FailureValue(last.op)) )

\* the hot-plug query before the generation is known, answered from the state
\* file
C27_Witness ==
    /\ last.op = "hdmi_get_hpd"
    /\ g_de_version = DE_VERSION_UNKNOWN
    /\ hdmi_state = [exists |-> TRUE, text |-> <<"1">>]
    /\ last.r = 1
    /\ calls = << >>

\* the calls the command branch of main made: those after the device was opened
BranchCalls(cs) == {i \in cs : i > last.from}

\* the argument of 'hdmi mode' is a catalog name or a mode number in 0 ..
\* DISP_TV_MODE_NUM - 1
AcceptedModeArg(arg) ==
    \/ find_mode_by_name(arg) # NoMode
    \/ LET after_t(t) == t.endptr > Len(arg) /\ t.val >= 0 /\ t.val < DISP_TV_MODE_NUM
       IN  after_t(StrToL(arg))

\* C28: 'hdmi mode <arg>' attempts hdmi_init at most once and never exits with
\* code 0 without having attempted it; an argument that is neither a catalog
\* name nor a mode number in the accepted range ends in a failure exit code
\* with no mode-setting call.
C28_ModeArgumentChecked ==
    ( /\ pc = "exited"
      /\ last.op = "hdmi mode" )
    => ( /\ Cardinality(BranchCalls(SupportQueries)) <= 1
         /\ Cardinality(BranchCalls(ModeSettings)) <= 1
         /\ exit_code = 0 => BranchCalls(SupportQueries \cup ModeSettings) # {}
         /\ ~AcceptedModeArg(Arg(argv, arg_start + 2))
            => (exit_code # 0 /\ BranchCalls(ModeSettings) = {}) )

\* the lines of the hardware-identity text that contain "Hardware"
HardwareLines ==
    {i \in 1..Len(cpuinfo.lines) : StrStr(cpuinfo.lines[i], SocId.Hardware)}

\* a line contains an identifier of generation 1, of generation 2
NamesGen1(line) == \E id \in {SocId.sun7i, SocId.A20, SocId.sun4i, SocId.A10} : StrStr(line, id)
NamesGen2(line) ==
    \E id \in {SocId.sun8i, SocId.H3, SocId.H5, SocId.sun50i, SocId.A64} : StrStr(line, id)

\* C29: the hardware-identity probe decides from the first line that contains
\* "Hardware" and from no later line: generation 1 if that line contains a
\* generation-1 identifier, else generation 2 if it contains a generation-2
\* identifier, else Unknown; it returns Unknown when the text cannot be opened
\* or has no such line; it makes no device call.
C29_FirstHardwareLineDecides ==
    last.op = "detect_soc_from_cpuinfo"
    => ( /\ calls = << >>
         /\ IF ~cpuinfo.exists \/ HardwareLines = {}
            THEN last.r = DE_VERSION_UNKNOWN
            ELSE \A first \in HardwareLines :
                    (\A j \in HardwareLines : first <= j)
                    => last.r = IF NamesGen1(cpuinfo.lines[first]) THEN DE_VERSION_1
                                ELSE IF NamesGen2(cpuinfo.lines[first]) THEN DE_VERSION_2
                                ELSE DE_VERSION_UNKNOWN )

\* a first "Hardware" line that names no SoC, followed by one that names a
\* generation-1 SoC: Unknown
C29_Witness ==
    /\ last.op = "detect_soc_from_cpuinfo"
    /\ cpuinfo.exists
    /\ Len(cpuinfo.lines) = 2
    /\ HardwareLines = {1, 2}
    /\ ~NamesGen1(cpuinfo.lines[1]) /\ ~NamesGen2(cpuinfo.lines[1])
    /\ NamesGen1(cpuinfo.lines[2])
    /\ last.r = DE_VERSION_UNKNOWN

\* the framebuffer has the width and the height of the selected screen
FbFillsScreen ==
    fbdev.xres = drv[g_screen].scn_w /\ fbdev.yres = drv[g_screen].scn_h

\* the positions in the call log after a step that the step added
Added(ps) == {i \in ps : i > Len(calls)}

\* C30: autoscale issues no framebuffer release, framebuffer request or
\* geometry write, and leaves the driver and the framebuffer as they were,
\* whenever the framebuffer width and height equal the screen's, and on
\* generation 2 in every case; when it does issue them it is on generation 1
\* with differing dimensions, as one release and one request whose source is
\* the current framebuffer size and whose destination is the current screen
\* size.
C30_AutoscaleOnlyWhenNeeded ==
    [][ last'.op = "autoscale"
        => ( /\ ( \/ FbFillsScreen
                  \/ g_de_version = DE_VERSION_2 )
                => ( /\ Added(Ioctls(calls', DE1_CMD_FB_RELEASE)) = {}
                     /\ Added(Ioctls(calls', DE1_CMD_FB_REQUEST)) = {}
                     /\ Added(Writes(calls')) = {}
                     /\ fbdev' = fbdev
                     /\ drv' = drv )
             /\ Added(Ioctls(calls', DE1_CMD_FB_RELEASE) \cup Ioctls(calls', DE1_CMD_FB_REQUEST)
                      \cup Writes(calls')) # {}
                => ( /\ g_de_version = DE_VERSION_1
                     /\ ~FbFillsScreen
                     /\ Added(Writes(calls')) = {}
                     /\ Cardinality(Added(Ioctls(calls', DE1_CMD_FB_RELEASE))) = 1
                     /\ Cardinality(Added(Ioctls(calls', DE1_CMD_FB_REQUEST))) = 1
                     /\ \A i \in Added(Ioctls(calls', DE1_CMD_FB_REQUEST)) :
                           SubSeq(calls'[i].data, 4, 7) =
                              <<fbdev.xres, fbdev.yres,
                                drv[g_screen].scn_w, drv[g_screen].scn_h>> ) ) ]_vars

\* autoscale on generation 1 with a 640x480 framebuffer on a 1280x720 screen:
\* the framebuffer was requested anew with the scaler
C30_Witness ==
    /\ last.op = "autoscale"
    /\ pc = "done"
    /\ g_de_version = DE_VERSION_1
    /\ last.r = 0
    /\ \E i \in Ioctls(calls, DE1_CMD_FB_REQUEST) :
          /\ i > last.from
          /\ SubSeq(calls[i].data, 2, 7) = <<DE1_LAYER_WORK_MODE_SCALER, 1, 640, 480, 1280, 720>>

=============================================================================
